---- MODULE Spec2Model ----
EXTENDS Integers, Sequences, FiniteSets, TLC

(***************************************************************************)
(* JavaScript strings.  A string value is a TLA+ string; Len, \o and       *)
(* SubSeq act on it character by character, positions counted from 1.      *)
(***************************************************************************)

\* s[i] of JavaScript, with i counted from 1
CharAt(s, i) == SubSeq(s, i, i)

\* the characters matched by \s
Whitespace == {" ", "\t", "\n", "\r", "\f"}

Digits == {"0", "1", "2", "3", "4", "5", "6", "7", "8", "9"}

UpperCase == <<"A", "B", "C", "D", "E", "F", "G", "H", "I", "J", "K", "L", "M",
               "N", "O", "P", "Q", "R", "S", "T", "U", "V", "W", "X", "Y", "Z">>

LowerCase == <<"a", "b", "c", "d", "e", "f", "g", "h", "i", "j", "k", "l", "m",
               "n", "o", "p", "q", "r", "s", "t", "u", "v", "w", "x", "y", "z">>

Letters == {UpperCase[i] : i \in 1..26} \cup {LowerCase[i] : i \in 1..26}

\* the characters matched by \w
WordChars == Letters \cup Digits \cup {"_"}

\* the sentence terminators of the character class [.!?]
Terminators == {".", "!", "?"}

\* membership of a character in one of the classes the regular expressions use
InClass(c, cls) ==
  CASE cls = "space"      -> c \in Whitespace
    [] cls = "nonword"    -> c \notin WordChars
    [] cls = "terminator" -> c \in Terminators
    [] cls = "blank"      -> c = " "

LowerOf == [c \in {UpperCase[i] : i \in 1..26} |->
              LowerCase[CHOOSE i \in 1..26 : UpperCase[i] = c]]

\* String.prototype.toLowerCase, halving the string so that the depth of the
\* recursion stays logarithmic in its length
RECURSIVE toLowerCase(_)
toLowerCase(s) ==
  IF s = "" THEN ""
  ELSE IF Len(s) = 1 THEN (IF s \in DOMAIN LowerOf THEN LowerOf[s] ELSE s)
  ELSE LET h == Len(s) \div 2
       IN toLowerCase(SubSeq(s, 1, h)) \o toLowerCase(SubSeq(s, h + 1, Len(s)))

RECURSIVE trimStart(_)
trimStart(s) ==
  IF s # "" /\ Head(s) \in Whitespace THEN trimStart(Tail(s)) ELSE s

RECURSIVE trimEnd(_)
trimEnd(s) ==
  IF s # "" /\ CharAt(s, Len(s)) \in Whitespace
  THEN trimEnd(SubSeq(s, 1, Len(s) - 1))
  ELSE s

\* String.prototype.trim
trim(s) == trimEnd(trimStart(s))

startsWith(s, p) == Len(p) <= Len(s) /\ SubSeq(s, 1, Len(p)) = p

endsWith(s, p) == Len(p) <= Len(s) /\ SubSeq(s, Len(s) - Len(p) + 1, Len(s)) = p

includes(s, p) ==
  \E i \in 1..(Len(s) - Len(p) + 1) : SubSeq(s, i, i + Len(p) - 1) = p

\* String.prototype.substring(0, n)
substring0(s, n) ==
  IF n <= 0 THEN "" ELSE IF n >= Len(s) THEN s ELSE SubSeq(s, 1, n)

\* String.prototype.lastIndexOf(' '): the JavaScript (0-based) index, -1 if none
lastIndexOfSpace(s) ==
  IF \E i \in 1..Len(s) : CharAt(s, i) = " "
  THEN (CHOOSE i \in 1..Len(s) :
          /\ CharAt(s, i) = " "
          /\ \A j \in (i + 1)..Len(s) : CharAt(s, j) # " ") - 1
  ELSE -1

\* first position >= i of a character of the class, 0 if there is none
firstInClass(s, cls, i) ==
  IF \E j \in i..Len(s) : InClass(CharAt(s, j), cls)
  THEN CHOOSE j \in i..Len(s) :
         /\ InClass(CharAt(s, j), cls)
         /\ \A k \in i..(j - 1) : ~InClass(CharAt(s, k), cls)
  ELSE 0

\* first position >= i of a character outside the class, Len(s) + 1 if none
firstOutOfClass(s, cls, i) ==
  IF \E j \in i..Len(s) : ~InClass(CharAt(s, j), cls)
  THEN CHOOSE j \in i..Len(s) :
         /\ ~InClass(CharAt(s, j), cls)
         /\ \A k \in i..(j - 1) : InClass(CharAt(s, k), cls)
  ELSE Len(s) + 1

\* String.prototype.split(/[cls]+/): the pieces between the maximal runs of
\* characters of the class, empty leading and trailing pieces included;
\* splitAt is given the position b of the first separator, 0 if none
RECURSIVE split(_, _)
splitAt(s, cls, b) ==
  IF b = 0 THEN <<s>>
  ELSE <<SubSeq(s, 1, b - 1)>>
         \o split(SubSeq(s, firstOutOfClass(s, cls, b), Len(s)), cls)

split(s, cls) == splitAt(s, cls, firstInClass(s, cls, 1))

\* Array.prototype.join
RECURSIVE join(_, _)
join(a, sep) ==
  IF a = <<>> THEN ""
  ELSE IF Len(a) = 1 THEN a[1]
  ELSE a[1] \o sep \o join(Tail(a), sep)

\* Array.prototype.slice(0, n)
slice0(a, n) ==
  IF n <= 0 THEN <<>> ELSE IF n >= Len(a) THEN a ELSE SubSeq(a, 1, n)

RECURSIVE mapTrim(_)
mapTrim(a) == IF a = <<>> THEN <<>> ELSE <<trim(a[1])>> \o mapTrim(Tail(a))

\* a.filter(s => s.length > n)
RECURSIVE longerThan(_, _)
longerThan(a, n) ==
  IF a = <<>> THEN <<>>
  ELSE (IF Len(a[1]) > n THEN <<a[1]>> ELSE <<>>) \o longerThan(Tail(a), n)

\* a.filter(s => s.trim().length > n)
RECURSIVE trimmedLongerThan(_, _)
trimmedLongerThan(a, n) ==
  IF a = <<>> THEN <<>>
  ELSE (IF Len(trim(a[1])) > n THEN <<a[1]>> ELSE <<>>)
         \o trimmedLongerThan(Tail(a), n)

\* Math.ceil(a / b) for integers a >= 0, b > 0
CeilDiv(a, b) == (a + b - 1) \div b

Max2(a, b) == IF a >= b THEN a ELSE b

Min2(a, b) == IF a <= b THEN a ELSE b

(***************************************************************************)
(* Scores.  The code multiplies floating point numbers by 1.8, 1.3, 0.3,   *)
(* ...; a score is kept here as the exact fraction n/d in lowest terms.    *)
(***************************************************************************)

RECURSIVE GCD(_, _)
GCD(a, b) == IF b = 0 THEN a ELSE GCD(b, a % b)

\* the fraction n/d in lowest terms
reduced(n, d) == [n |-> n \div GCD(n, d), d |-> d \div GCD(n, d)]

\* score *= p/q
Times(score, p, q) ==
  IF score.n = 0 THEN [n |-> 0, d |-> 1]
  ELSE reduced(score.n * p, score.d * q)

\* a.n / a.d > b.n / b.d, the common factors gn of the numerators and gd
\* of the denominators taken out before multiplying
greaterBy(a, b, gn, gd) ==
  (a.n \div gn) * (b.d \div gd) > (b.n \div gn) * (a.d \div gd)

\* a.score > b.score
Greater(a, b) ==
  greaterBy(a, b, IF a.n = 0 \/ b.n = 0 THEN 1 ELSE GCD(a.n, b.n),
            GCD(a.d, b.d))

\* score *= (p/q), k times
RECURSIVE TimesPow(_, _, _, _)
TimesPow(score, p, q, k) ==
  IF k = 0 THEN score ELSE TimesPow(Times(score, p, q), p, q, k - 1)

(***************************************************************************)
(* The extractive fallback engine and simple truncation, shared parts.      *)
(***************************************************************************)

\* extractSentences: split on [.!?]+, trim, keep those longer than 10
\* characters, keep the first 20
extractSentences(text) ==
  slice0(longerThan(mapTrim(split(text, "terminator")), 10), 20)

stopWords ==
  {"the", "and", "or", "but", "in", "on", "at", "to", "for", "of", "with",
   "by", "is", "are", "was", "were", "be", "been", "have", "has", "had", "do",
   "does", "did", "will", "would", "could", "should", "may", "might", "can",
   "this", "that", "these", "those"}

\* text.toLowerCase().split(/\W+/).filter(w => w.length > 2)
wordsOf(text) == longerThan(split(toLowerCase(text), "nonword"), 2)

\* freq[word] || 0, freq being the sequence of [word, count] entries in the
\* order the words were first met
lookup(freq, word) ==
  IF \E i \in 1..Len(freq) : freq[i].word = word
  THEN freq[CHOOSE i \in 1..Len(freq) : freq[i].word = word].count
  ELSE 0

RECURSIVE countWords(_, _)
countWords(words, freq) ==
  IF words = <<>> THEN freq
  ELSE LET word == Head(words)
       IN IF word \in stopWords THEN countWords(Tail(words), freq)
          ELSE IF \E i \in 1..Len(freq) : freq[i].word = word
          THEN countWords(Tail(words),
                 [i \in 1..Len(freq) |->
                    IF freq[i].word = word
                    THEN [word |-> word, count |-> freq[i].count + 1]
                    ELSE freq[i]])
          ELSE countWords(Tail(words),
                 Append(freq, [word |-> word, count |-> 1]))

\* calculateWordFrequencies
calculateWordFrequencies(text) == countWords(wordsOf(text), <<>>)

\* words.forEach(word => score += wordFreq[word] || 0)
RECURSIVE sumFrequencies(_, _)
sumFrequencies(words, freq) ==
  IF words = <<>> THEN 0
  ELSE lookup(freq, Head(words)) + sumFrequencies(Tail(words), freq)

\* the number of keywords that occur in the lower-cased sentence
keywordHits(sentence, keywords) ==
  LET lower == toLowerCase(sentence)
  IN Cardinality({i \in 1..Len(keywords) : includes(lower, keywords[i])})

containsDigit(s) == \E i \in 1..Len(s) : CharAt(s, i) \in Digits

\* a.sort((a, b) => b.score - a.score): stable, highest score first
RECURSIVE insertByScore(_, _)
insertByScore(sorted, x) ==
  IF sorted = <<>> THEN <<x>>
  ELSE IF Greater(x.score, sorted[1].score) THEN <<x>> \o sorted
  ELSE <<sorted[1]>> \o insertByScore(Tail(sorted), x)

RECURSIVE sortByScore(_)
sortByScore(a) ==
  IF a = <<>> THEN <<>>
  ELSE insertByScore(sortByScore(SubSeq(a, 1, Len(a) - 1)), a[Len(a)])

\* a.sort((a, b) => a.index - b.index)
RECURSIVE insertByIndex(_, _)
insertByIndex(sorted, x) ==
  IF sorted = <<>> THEN <<x>>
  ELSE IF x.index < sorted[1].index THEN <<x>> \o sorted
  ELSE <<sorted[1]>> \o insertByIndex(Tail(sorted), x)

RECURSIVE sortByIndex(_)
sortByIndex(a) ==
  IF a = <<>> THEN <<>>
  ELSE insertByIndex(sortByIndex(SubSeq(a, 1, Len(a) - 1)), a[Len(a)])

\* Object.entries(wordFreq).sort(([,a], [,b]) => b - a)
RECURSIVE insertByCount(_, _)
insertByCount(sorted, x) ==
  IF sorted = <<>> THEN <<x>>
  ELSE IF x.count > sorted[1].count THEN <<x>> \o sorted
  ELSE <<sorted[1]>> \o insertByCount(Tail(sorted), x)

RECURSIVE sortByCount(_)
sortByCount(a) ==
  IF a = <<>> THEN <<>>
  ELSE insertByCount(sortByCount(SubSeq(a, 1, Len(a) - 1)), a[Len(a)])

RECURSIVE wordsOfEntries(_)
wordsOfEntries(a) ==
  IF a = <<>> THEN <<>> ELSE <<a[1].word>> \o wordsOfEntries(Tail(a))

RECURSIVE sentencesOf(_)
sentencesOf(a) ==
  IF a = <<>> THEN <<>> ELSE <<a[1].sentence>> \o sentencesOf(Tail(a))

(***************************************************************************)
(* note-app-backend/src/services/aiService.js                              *)
(***************************************************************************)

\* the loop of simpleTruncate over the sentences; takeSentence is one pass,
\* given sentenceWords = sentence.split(/\s+/).length of the first sentence
RECURSIVE takeSentences(_, _, _, _)
takeSentence(sentences, summary, wordCount, targetWords, sentenceWords) ==
  IF wordCount + sentenceWords <= targetWords
  THEN takeSentences(Tail(sentences),
         summary \o (IF summary # "" THEN ". " ELSE "") \o Head(sentences),
         wordCount + sentenceWords, targetWords)
  ELSE IF summary = ""
  THEN join(slice0(split(Head(sentences), "space"), targetWords), " ") \o "..."
  ELSE summary

takeSentences(sentences, summary, wordCount, targetWords) ==
  IF sentences = <<>> THEN summary
  ELSE takeSentence(sentences, summary, wordCount, targetWords,
                    Len(split(Head(sentences), "space")))

\* lastSpace > targetChars * 0.8 ? truncated.substring(0, lastSpace) + '...'
\*                               : truncated + '...'
truncatedAt(truncated, lastSpace, targetChars) ==
  IF 5 * lastSpace > 4 * targetChars
  THEN substring0(truncated, lastSpace) \o "..."
  ELSE truncated \o "..."

\* the character-based truncation, all of simpleTruncate in backend/
charTruncate(content, maxLength) ==
  IF Len(content) <= maxLength * 4 THEN content
  ELSE truncatedAt(substring0(content, maxLength * 4),
                   lastIndexOfSpace(substring0(content, maxLength * 4)),
                   maxLength * 4)

\* "Ensure proper ending"
properEnding(summary) ==
  IF summary # "" /\ ~endsWith(summary, ".") /\ ~endsWith(summary, "...")
  THEN summary \o "."
  ELSE summary

\* summary || content.substring(0, Math.ceil(maxLength * 4)) + '...'
orTruncated(summary, content, maxLength) ==
  IF summary # "" THEN summary
  ELSE substring0(content, maxLength * 4) \o "..."

\* simpleTruncate, given the sentences of the content
simpleTruncateOver(content, maxLength, sentences) ==
  IF sentences = <<>> THEN charTruncate(content, maxLength)
  ELSE orTruncated(
         properEnding(takeSentences(sentences, "", 0, CeilDiv(maxLength, 4))),
         content, maxLength)

simpleTruncate(content, maxLength) ==
  simpleTruncateOver(content, maxLength,
                     longerThan(mapTrim(split(content, "terminator")), 0))

simpleTruncate_backend(content, maxLength) == charTruncate(content, maxLength)

\* this.simpleTruncate of the variant
simpleTruncateOf(v, content, maxLength) ==
  IF v = "backend" THEN simpleTruncate_backend(content, maxLength)
  ELSE simpleTruncate(content, maxLength)

\* the return statements of generateKeywordSummary
keyTopics(v, content, maxWords, topWords) ==
  IF topWords = <<>> THEN simpleTruncateOf(v, content, maxWords * 5)
  ELSE "Key topics: " \o join(topWords, ", ") \o ". "
         \o simpleTruncateOf(v, content, maxWords * 3)

\* generateKeywordSummary, the same text in both files
generateKeywordSummary(v, content, maxWords) ==
  keyTopics(v, content, maxWords,
            wordsOfEntries(slice0(sortByCount(calculateWordFrequencies(content)),
                                  Min2(10, maxWords \div 2))))

\* summary || this.generateKeywordSummary(content, targetWords)
orKeywordSummary(summary, v, content, targetWords) ==
  IF summary # "" THEN summary
  ELSE generateKeywordSummary(v, content, targetWords)

\* "Sort by score and select top sentences", "Re-order by original position"
orderedSentences(scoredSentences, n) ==
  sentencesOf(sortByIndex(slice0(sortByScore(scoredSentences), n)))

\* if (cond) score *= p/q
scaledIf(score, cond, p, q) == IF cond THEN Times(score, p, q) ELSE score

keywords ==
  <<"important", "key", "main", "significant", "conclusion", "summary",
    "result", "therefore", "however", "moreover", "furthermore",
    "consequently", "finally", "first", "second", "third", "primary",
    "secondary", "essential", "critical", "shows", "demonstrates",
    "indicates", "reveals", "suggests", "proves">>

\* the score of the sentence whose words are given: the sum of the word
\* frequencies, then, from the inside out, the position bonuses (1.8, 1.3),
\* the length factors (0.3, 0.7, 1.2), the keyword bonus (1.4 per keyword)
\* and the bonus for digits (1.2)
scoreOf(words, sentence, index, count, wordFreq) ==
  scaledIf(
    TimesPow(
      scaledIf(
        scaledIf(
          scaledIf(
            scaledIf(
              scaledIf([n |-> sumFrequencies(words, wordFreq), d |-> 1],
                       index = 0, 9, 5),
              index = count - 1, 13, 10),
            Len(words) < 5, 3, 10),
          Len(words) > 35, 7, 10),
        Len(words) >= 8 /\ Len(words) <= 25, 6, 5),
      7, 5, keywordHits(sentence, keywords)),
    containsDigit(sentence), 6, 5)

\* the scoring callback, for the sentence at (0-based) position index among
\* count sentences
scoreSentence(sentence, index, count, wordFreq) ==
  [sentence |-> sentence,
   score |-> scoreOf(wordsOf(sentence), sentence, index, count, wordFreq),
   index |-> index]

scoreSentences(sentences, wordFreq) ==
  [i \in 1..Len(sentences) |->
     scoreSentence(sentences[i], i - 1, Len(sentences), wordFreq)]

\* Math.min(Math.max(2, Math.ceil(sentences.length * 0.3)), 4)
numSentences(count) == Min2(Max2(2, CeilDiv(3 * count, 10)), 4)

\* the bullet marker as the file spells it: three characters
BulletMarker == "^~#"

\* summary += (summary ? ' ' : '') + sentence.trim(), a full stop unless the
\* sentence ends one, and a space
appended(summary, sentence) ==
  summary \o (IF summary # "" THEN " " ELSE "") \o trim(sentence)
    \o (IF ~endsWith(sentence, ".") /\ ~endsWith(sentence, "!")
           /\ ~endsWith(sentence, "?")
        THEN "." ELSE "")
    \o " "

\* truncated + (truncated.endsWith('.') ? '' : '...')
withDots(truncated) ==
  truncated \o (IF endsWith(truncated, ".") THEN "" ELSE "...")

RECURSIVE buildSummary(_, _, _, _)

\* buildSentence taking every sentence, whatever the word limit
buildSentence_unlimited(sentences, summary, wordCount, targetWords, sentenceWords) ==
  buildSummary(Tail(sentences), appended(summary, Head(sentences)),
               wordCount + sentenceWords, targetWords)

\* "Build summary within word limit"; buildSentence is one pass of the loop,
\* given sentenceWords = sentence.split(/\s+/).length of the first sentence
buildSentence(sentences, summary, wordCount, targetWords, sentenceWords) ==
  IF wordCount + sentenceWords <= targetWords
  THEN buildSummary(Tail(sentences), appended(summary, Head(sentences)),
                    wordCount + sentenceWords, targetWords)
  ELSE IF summary = ""
  THEN withDots(join(slice0(split(Head(sentences), "space"),
                            Max2(10, targetWords)), " "))
  ELSE buildSummary(Tail(sentences), summary, wordCount, targetWords)

buildSummary(sentences, summary, wordCount, targetWords) ==
  IF sentences = <<>> THEN summary
  ELSE buildSentence(sentences, summary, wordCount, targetWords,
                     Len(split(Head(sentences), "space")))

RECURSIVE bulletLines(_, _)
bulletLines(points, marker) ==
  IF points = <<>> THEN <<>>
  ELSE <<marker \o " " \o trim(points[1])>> \o bulletLines(Tail(points), marker)

\* "Style-based formatting"
styled(summary, style) ==
  IF style = "bullet" /\ summary # ""
  THEN join(bulletLines(trimmedLongerThan(split(summary, "terminator"), 15),
                        BulletMarker), "\n")
  ELSE IF style = "detailed" /\ summary # ""
  THEN "Summary: " \o summary
  ELSE summary

\* fallbackSummarize, given the sentences of the content and the word limit
summarizeSentences(content, maxLength, style, sentences, targetWords) ==
  IF sentences = <<>> THEN simpleTruncate(content, maxLength)
  ELSE orKeywordSummary(
         styled(trim(buildSummary(
                       orderedSentences(
                         scoreSentences(sentences,
                                        calculateWordFrequencies(content)),
                         numSentences(Len(sentences))),
                       "", 0, targetWords)),
                style),
         "note-app-backend", content, targetWords)

fallbackSummarize(content, maxLength, style) ==
  summarizeSentences(content, maxLength, style, extractSentences(content),
                     CeilDiv(2 * maxLength, 7))

(***************************************************************************)
(* backend/src/services/aiService.js                                       *)
(***************************************************************************)

keywords_backend ==
  <<"important", "key", "main", "significant", "conclusion", "summary",
    "result">>

\* the score of the sentence whose words are given: the sum of the word
\* frequencies, then the position bonuses (1.5, 1.2), the length penalties
\* (0.5, 0.8) and the keyword bonus (1.3 per keyword)
scoreOf_backend(words, sentence, index, count, wordFreq) ==
  TimesPow(
    scaledIf(
      scaledIf(
        scaledIf(
          scaledIf([n |-> sumFrequencies(words, wordFreq), d |-> 1],
                   index = 0, 3, 2),
          index = count - 1, 6, 5),
        Len(words) < 5, 1, 2),
      Len(words) > 30, 4, 5),
    13, 10, keywordHits(sentence, keywords_backend))

scoreSentence_backend(sentence, index, count, wordFreq) ==
  [sentence |-> sentence,
   score |-> scoreOf_backend(wordsOf(sentence), sentence, index, count,
                             wordFreq),
   index |-> index]

scoreSentences_backend(sentences, wordFreq) ==
  [i \in 1..Len(sentences) |->
     scoreSentence_backend(sentences[i], i - 1, Len(sentences), wordFreq)]

BulletMarker_backend == "#"

RECURSIVE buildSummary_backend(_, _, _, _)
buildSentence_backend(sentences, summary, wordCount, targetWords, sentenceWords) ==
  IF wordCount + sentenceWords <= targetWords
  THEN buildSummary_backend(Tail(sentences),
         summary \o (IF summary # "" THEN " " ELSE "") \o Head(sentences),
         wordCount + sentenceWords, targetWords)
  ELSE IF summary = ""
  THEN join(slice0(split(Head(sentences), "space"), targetWords), " ") \o "..."
  ELSE buildSummary_backend(Tail(sentences), summary, wordCount, targetWords)

buildSummary_backend(sentences, summary, wordCount, targetWords) ==
  IF sentences = <<>> THEN summary
  ELSE buildSentence_backend(sentences, summary, wordCount, targetWords,
                             Len(split(Head(sentences), "space")))

\* "Style-based formatting"
styled_backend(summary, style) ==
  IF style = "bullet" /\ summary # ""
  THEN join(bulletLines(trimmedLongerThan(split(summary, "terminator"), 10),
                        BulletMarker_backend), "\n")
  ELSE summary

\* fallbackSummarize, given the sentences of the content and the word limit
summarizeSentences_backend(content, maxLength, style, sentences, targetWords) ==
  IF sentences = <<>> THEN simpleTruncate_backend(content, maxLength)
  ELSE orKeywordSummary(
         trim(styled_backend(
                buildSummary_backend(
                  orderedSentences(
                    scoreSentences_backend(sentences,
                                           calculateWordFrequencies(content)),
                    Min2(3, Len(sentences))),
                  "", 0, targetWords),
                style)),
         "backend", content, targetWords)

fallbackSummarize_backend(content, maxLength, style) ==
  summarizeSentences_backend(content, maxLength, style,
                             extractSentences(content), CeilDiv(maxLength, 4))

(***************************************************************************)
(* JavaScript values that reach summarizeText as its content argument.     *)
(***************************************************************************)

Str(s) == [type |-> "string", value |-> s]

JsNull == [type |-> "null", value |-> ""]

JsNumber == [type |-> "number", value |-> "42"]

\* !!v
Truthy(v) ==
  CASE v.type = "string" -> v.value # ""
    [] v.type = "number" -> v.value \notin {"0", "NaN"}
    [] OTHER -> FALSE

(***************************************************************************)
(* Program constants.                                                      *)
(***************************************************************************)

MinContentLength == 100

MaxContentLength == 50000

MinContentLength_backend == 50

MaxContentLength_backend == 10000

MaxRetries == 2

MaxRetries_backend == 3

DefaultMaxTokens == 150

BackoffBase == 1000

BackoffCap == 10000

MinSummaryLength == 10

Variants == {"note-app-backend", "backend"}

\* minLengthOf with one threshold for both files
minLengthOf_shared(v) == MinContentLength_backend

minLengthOf(v) ==
  IF v = "backend" THEN MinContentLength_backend ELSE MinContentLength

\* maxLengthOf with one limit for both files
maxLengthOf_shared(v) == MaxContentLength

maxLengthOf(v) ==
  IF v = "backend" THEN MaxContentLength_backend ELSE MaxContentLength

maxRetriesOf(v) == IF v = "backend" THEN MaxRetries_backend ELSE MaxRetries

(***************************************************************************)
(* Provider selection.                                                     *)
(***************************************************************************)

\* selectPrimaryProvider with the two network providers tested in the
\* other order
selectPrimaryProvider_openaiFirst(cfg) ==
  IF cfg.openaiApiKey # "" THEN "openai"
  ELSE IF cfg.huggingFaceApiKey # "" THEN "huggingface"
  ELSE "fallback"

\* selectPrimaryProvider of note-app-backend
selectPrimaryProvider(cfg) ==
  IF cfg.huggingFaceApiKey # "" THEN "huggingface"
  ELSE IF cfg.openaiApiKey # "" THEN "openai"
  ELSE "fallback"

\* the constructor of backend
constructor_backend(cfg) ==
  IF cfg.openaiApiKey # "" /\ ~(cfg.huggingFaceApiKey # "") THEN "openai"
  ELSE IF ~(cfg.huggingFaceApiKey # "") /\ ~(cfg.openaiApiKey # "")
  THEN "fallback"
  ELSE "huggingface"

(***************************************************************************)
(* Input and response validation.                                          *)
(***************************************************************************)

\* the checks at the head of summarizeText: the message of the
\* ValidationError thrown, "" if the content is accepted
validateInput(v, content) ==
  IF ~Truthy(content) \/ content.type # "string"
  THEN "Content must be a non-empty string"
  ELSE IF Len(trim(content.value)) < minLengthOf(v)
  THEN (IF v = "backend"
        THEN "Content must be at least 50 characters long for summarization"
        ELSE "Content must be at least 100 characters long for meaningful summarization")
  ELSE IF Len(trim(content.value)) > maxLengthOf(v)
  THEN (IF v = "backend"
        THEN "Content is too long for summarization (max 10,000 characters)"
        ELSE "Content is too long for summarization (max 50,000 characters)")
  ELSE ""

failurePrefixes ==
  <<"I cannot", "I can't", "Unable to", "Sorry, I cannot",
    "As an AI", "I'm an AI", "I am an AI",
    "Error", "Failed", "Exception">>

\* one of the failurePatterns, /^(...)/i, matches
matchesFailurePattern(text) ==
  \E i \in 1..Len(failurePrefixes) :
    toLowerCase(substring0(text, Len(failurePrefixes[i])))
      = toLowerCase(failurePrefixes[i])

\* validateAIResponse without the comparison against the original length
validateAIResponse_unbounded(summary, originalContent) ==
  LET trimmedSummary == trim(summary)
  IN IF summary = ""
     THEN [threw |-> TRUE, value |-> "Invalid AI response format"]
     ELSE IF Len(trimmedSummary) < MinSummaryLength
     THEN [threw |-> TRUE, value |-> "AI response too short"]
     ELSE IF matchesFailurePattern(trimmedSummary)
     THEN [threw |-> TRUE, value |-> "AI response indicates failure"]
     ELSE [threw |-> FALSE, value |-> trimmedSummary]

\* validateAIResponse: the trimmed summary, or the message of the
\* AIServiceError thrown
validateAIResponse(summary, originalContent) ==
  LET trimmedSummary == trim(summary)
  IN IF summary = ""
     THEN [threw |-> TRUE, value |-> "Invalid AI response format"]
     ELSE IF Len(trimmedSummary) < MinSummaryLength
     THEN [threw |-> TRUE, value |-> "AI response too short"]
     ELSE IF Len(trimmedSummary) > Len(originalContent)
     THEN [threw |-> TRUE, value |-> "AI response longer than original content"]
     ELSE IF matchesFailurePattern(trimmedSummary)
     THEN [threw |-> TRUE, value |-> "AI response indicates failure"]
     ELSE [threw |-> FALSE, value |-> trimmedSummary]

(***************************************************************************)
(* Provider adapters.  A network response is a record                      *)
(* [kind, status, text]: kind "ok" is an HTTP 200 whose summary field is   *)
(* text ("" when the field is missing), "http" an error status, "timeout"  *)
(* the 30 s axios timeout (ECONNABORTED), "network" a connection error.    *)
(***************************************************************************)

Returned(text) == [threw |-> FALSE, value |-> text]

Threw(message) == [threw |-> TRUE, value |-> message]

\* one pass of the loop over the models in huggingFaceSummarize of
\* note-app-backend: the summary returned, or a throw standing for
\* "continue with the next model"
huggingFaceModel(resp) ==
  IF resp.kind = "ok" /\ trim(resp.text) # ""
  THEN Returned(trim(resp.text))
  ELSE Threw("All Hugging Face models failed")

\* huggingFaceSummarize of backend
huggingFaceSummarize_backend(resp) ==
  CASE resp.kind = "ok" /\ resp.text # "" -> Returned(trim(resp.text))
    [] resp.kind = "ok" /\ resp.text = "" ->
         Threw("Hugging Face connection error: Empty response from Hugging Face")
    [] resp.kind = "http" /\ resp.status = 401 ->
         Threw("Invalid Hugging Face API key")
    [] resp.kind = "http" /\ resp.status = 429 ->
         Threw("Hugging Face rate limit exceeded")
    [] resp.kind = "http" /\ resp.status = 503 ->
         Threw("Hugging Face model is loading, try again in a moment")
    [] resp.kind = "http" /\ resp.status \notin {401, 429, 503} ->
         Threw("Hugging Face API error: Unknown Hugging Face error")
    [] resp.kind = "timeout" -> Threw("Hugging Face request timeout")
    [] resp.kind = "network" ->
         Threw("Hugging Face connection error: socket hang up")

\* openaiSummarize after its request has been answered, the same in both files
openaiSummarize(resp) ==
  CASE resp.kind = "ok" /\ trim(resp.text) # "" -> Returned(trim(resp.text))
    [] resp.kind = "ok" /\ trim(resp.text) = "" ->
         Threw("OpenAI connection error: Empty response from OpenAI")
    [] resp.kind = "http" /\ resp.status = 401 ->
         Threw("Invalid OpenAI API key")
    [] resp.kind = "http" /\ resp.status = 429 ->
         Threw("OpenAI rate limit exceeded")
    [] resp.kind = "http" /\ resp.status = 500 ->
         Threw("OpenAI service temporarily unavailable")
    [] resp.kind = "http" /\ resp.status \notin {401, 429, 500} ->
         Threw("OpenAI API error: Unknown OpenAI error")
    [] resp.kind = "timeout" -> Threw("OpenAI request timeout")
    [] resp.kind = "network" ->
         Threw("OpenAI connection error: socket hang up")

\* the number of model requests one huggingFaceSummarize call may issue
modelsOf(v) == IF v = "backend" THEN 1 ELSE 2

\* this.providers.fallback(content, options): the engine catches its own
\* exceptions, so the promise is never rejected
fallbackEngine(v, content, maxLength, style) ==
  IF v = "backend"
  THEN Returned(fallbackSummarize_backend(content, maxLength, style))
  ELSE Returned(fallbackSummarize(content, maxLength, style))

\* backoffDelay with the exponent one too large
backoffDelay_late(attempt) == Min2(BackoffBase * 2^attempt, BackoffCap)

\* Math.min(1000 * Math.pow(2, attempt - 1), 10000)
backoffDelay(attempt) == Min2(BackoffBase * 2^(attempt - 1), BackoffCap)

\* summary.split(' ').length
wordCountOf(summary) ==
  Cardinality({i \in 1..Len(summary) : CharAt(summary, i) = " "}) + 1

(***************************************************************************)
(* What a call hands back.                                                 *)
(***************************************************************************)

NoOutcome ==
  [kind |-> "none", summary |-> "", provider |-> "", wordCount |-> 0,
   originalLength |-> 0, message |-> ""]

\* formatResult
formatResult(summary, provider, originalContent) ==
  [kind |-> "result", summary |-> summary, provider |-> provider,
   wordCount |-> wordCountOf(summary),
   originalLength |-> Len(originalContent), message |-> ""]

Rejection(kind, message) ==
  [kind |-> kind, summary |-> "", provider |-> "", wordCount |-> 0,
   originalLength |-> 0, message |-> message]

(***************************************************************************)
(* Bounds and inputs.                                                      *)
(***************************************************************************)

\* the number of summarizeText calls a behaviour makes
MaxCalls == 2

RECURSIVE repeat(_, _)
repeat(s, n) ==
  IF n = 0 THEN ""
  ELSE IF n % 2 = 1 THEN s \o repeat(s, n - 1)
  ELSE LET h == repeat(s, n \div 2) IN h \o h

TBlank == "   \n\t   \n   "

TShort == "This is a very short note that might be too brief for summarization."

TFortyNine == "  Only forty-nine characters of text in this note.x \n"

TFifty == "Exactly fifty characters of text are in this note."

TNinetyNine == " A note of ninety-nine characters. It has two sentences, and a key word, to reach the limit minus 1!\t"

THundred == "A note of one hundred characters. It has two sentences and a digit, 100, to reach the stated limit!!"

TSpec == "Sentence one is short. Sentence two contains the word important and several more words to pad it out. Sentence three is the final one."

TError == "Error handling is the main concern of this service. Every provider call can fail in 3 ways, and the result must still be usable."

TRunOn == "this note was typed in a hurry without any punctuation at all and it simply keeps going across many words until it stops"

TFrag == "Buy milk. Call mom. Pay rent. Fix bike. Walk dog. Read book. Wash car. Cook rice. Feed cat. Mow lawn. Nap."

TPunct == repeat(".", 40) \o repeat("!", 30) \o repeat("?", 30)

TTenThousandOne == repeat("a", MaxContentLength_backend + 1)

TFiftyThousandOne == repeat("a", MaxContentLength + 1)

\* contents no variant accepts
RejectedContents ==
  {JsNull, JsNumber, Str(""), Str(TBlank), Str(TFortyNine),
   Str(TFiftyThousandOne)}

\* contents at the limits of the variants
BoundaryContents ==
  {Str(TShort), Str(TFifty), Str(TNinetyNine), Str(THundred),
   Str(TTenThousandOne)}

\* contents both variants accept
AcceptedContents ==
  {Str(TSpec), Str(TError), Str(TRunOn), Str(TFrag), Str(TPunct)}

NoOptions == [x \in {} |-> 0]

OptionSets ==
  {NoOptions,
   [maxLength |-> 50, style |-> "bullet"],
   [maxLength |-> 150, style |-> "detailed"],
   [maxLength |-> 8]}

\* the (content, options) pairs summarizeText is called with
Inputs ==
  {<<content, NoOptions>> : content \in RejectedContents \cup BoundaryContents}
    \cup (AcceptedContents \X OptionSets)

maxLengthIn(options) ==
  IF "maxLength" \in DOMAIN options THEN options.maxLength
  ELSE DefaultMaxTokens

styleIn(options) ==
  IF "style" \in DOMAIN options THEN options.style ELSE "concise"

\* The results of the engine on the inputs, computed once: the engine is a
\* pure function, and the actions look its result up here.
EngineKeys ==
  {<<v, trim(input[1].value), maxLengthIn(input[2]), styleIn(input[2])>> :
     v \in Variants, input \in Inputs}

EngineResults ==
  [k \in {key \in EngineKeys : validateInput(key[1], Str(key[2])) = ""} |->
     fallbackEngine(k[1], k[2], k[3], k[4])]

HttpStatuses == {401, 429, 500, 503}

\* the texts a provider may answer a request about the content with
ResponseTexts(content) ==
  {"", "   ", "A short summary of the note.", "error: the model is loading",
   "i can't summarize this", "Too short", content, content \o "!"}

Responses(content) ==
  {[kind |-> "ok", status |-> 200, text |-> t] : t \in ResponseTexts(content)}
    \cup {[kind |-> "http", status |-> s, text |-> ""] : s \in HttpStatuses}
    \cup {[kind |-> "timeout", status |-> 0, text |-> ""],
          [kind |-> "network", status |-> 0, text |-> ""]}

KeyValues == {"", "configured"}


(***************************************************************************)
(* Notes for the fallback engine of note-app-backend: texts with more      *)
(* candidate sentences than the engine selects.                            *)
(***************************************************************************)

\* 3 candidates; the last one scores highest, the middle one lowest
EThree == "Tea is nice today. Rain fell here. The important result shows 3 key tests passed and the result holds for every case."

\* 3 candidates; the first one scores lowest
ELater == "Tea is nice today. The important result shows 3 key tests passed and the main result holds. A second important result shows 7 essential tests failed again."

\* 2 candidates of 7 and 8 words
EFifteen == "Seven plain words make this first sentence. Eight further words nicely complete this second sentence."

EWeekOne == "Monday we met the team. Tuesday we wrote some code. Wednesday the build broke. Thursday we fixed the build. Friday we shipped the code. The main result shows 9 key tests passed. Saturday we took a rest. Sunday the team met again."

\* 8 candidates
EEight == EWeekOne

\* 11 candidates
EEleven == EWeekOne \o " Then the plan changed. The team wrote more code. The important conclusion shows 5 critical tests failed."

\* 21 candidates, the last one with the most bonuses
ETwentyOne == "Ann overpaid. Bob returned. Cal departed. Dan complained. Eve overpaid. Fay returned. Gus departed. Hal complained. Ida overpaid. Jon returned. Kim departed. Lee complained. Max overpaid. Ned returned. Oda departed. Pat complained. Ray overpaid. Sue returned. Tom departed. Una complained. Finally 8 key results."

\* test-robust-ai.js, 'Single Long Sentence'
ESingleLong == "This is an extremely long sentence that goes on and on without any periods or breaks and contains a lot of information about various topics including technology, science, business, and other subjects that would normally be split into multiple sentences but instead is all combined into one very long run-on sentence that tests the system's ability to handle unusual text structures."

(***************************************************************************)
(* The service: one AIService instance (the module exports a singleton),   *)
(* its configuration, and the calls of its clients.                        *)
(***************************************************************************)

VARIABLES
  variant,          \* which of the two aiService.js files is running
  config,           \* config.huggingFaceApiKey and config.openaiApiKey
  currentProvider,  \* this.currentProvider
  requestCount,     \* this.requestCount
  errorCount,       \* this.errorCount
  calls,            \* per client: the call in progress or its outcome
  tally             \* history: summarizeText calls completed, by outcome

\* the state of aiController.js, of the clock and of the database
VARIABLES
  clock,              \* Date.now()
  notes,              \* the notes of the user in the database
  userRequestCounts,  \* the array the map holds for the user, "none" if none
  arrays,             \* the contents of the arrays of timestamps
  handlers,           \* per handler: the request in progress or its response
  history             \* history: requests received, times the core was called

controllerVars ==
  <<clock, notes, userRequestCounts, arrays, handlers, history>>

vars == <<variant, config, currentProvider, requestCount, errorCount, calls,
          tally, clock, notes, userRequestCounts, arrays, handlers, history>>

Callers == {"c1", "c2"}

Event(e, n) == [e |-> e, n |-> n]

NoStats == [requestCount |-> 0, errorCount |-> 0, successRate |-> 0]

Idle ==
  [pc |-> "idle", op |-> "none", input |-> Str(""), maxLength |-> 0,
   style |-> "", attempt |-> 0, model |-> 0, lastError |-> "", log |-> <<>>,
   outcome |-> NoOutcome, stats |-> NoStats,
   \* history: the text the retry wrapper returned, the message of the latest
   \* failed attempt, the message the catch block of summarizeText received
   primaryText |-> "", lastFailure |-> "", caught |-> ""]

\* trimmedContent of the call
trimmedContent(call) == trim(call.input.value)

\* engineOn of an engine that reads the error counter of the service
engineOn_counting(v, content, maxLength, style) ==
  fallbackEngine(v, content, maxLength,
                 IF errorCount > 0 THEN "detailed" ELSE style)

\* await this.providers.fallback(content, options)
engineOn(v, content, maxLength, style) ==
  LET k == <<v, content, maxLength, style>>
  IN IF k \in DOMAIN EngineResults THEN EngineResults[k]
     ELSE fallbackEngine(v, content, maxLength, style)

Finished(call, outcome, events) ==
  [call EXCEPT !.pc = "done", !.outcome = outcome, !.log = @ \o events]

\* catchBlock going straight to the truncation, whatever the provider was
catchBlock_truncating(called, message) ==
  LET call == [called EXCEPT !.caught = message]
      content == trimmedContent(call)
  IN Finished(call,
       formatResult(simpleTruncateOf(variant, content, call.maxLength),
                    "simple", content),
       <<Event("simple", 0)>>)

\* catchBlock sleeping the backoff delay once more before the engine runs
catchBlock_waiting(called, message) ==
  LET call == [called EXCEPT !.caught = message]
      content == trimmedContent(call)
  IN Finished(call,
       formatResult(engineOn(variant, content, call.maxLength, call.style).value,
                    "fallback", content),
       <<Event("wait", backoffDelay(call.attempt)), Event("fallback", 0)>>)

\* the catch block of summarizeText: the outcome of the call after the
\* primary provider failed with the message
catchBlock(called, message) ==
  LET call == [called EXCEPT !.caught = message]
      content == trimmedContent(call)
      engine == engineOn(variant, content, call.maxLength, call.style)
      simple == simpleTruncateOf(variant, content, call.maxLength)
  IN IF variant = "backend"
     THEN IF currentProvider # "fallback" /\ ~engine.threw
          THEN Finished(call, formatResult(engine.value, "fallback", content),
                        <<Event("fallback", 0)>>)
          ELSE Finished(call,
                 Rejection("AIServiceError", "Summarization failed: " \o message),
                 IF currentProvider # "fallback"
                 THEN <<Event("fallback", 0)>> ELSE <<>>)
     ELSE IF currentProvider # "fallback"
          THEN \* tryFallbackSummarization
               IF ~engine.threw
               THEN Finished(call,
                      formatResult(engine.value, "fallback", content),
                      <<Event("fallback", 0)>>)
               ELSE Finished(call, formatResult(simple, "simple", content),
                      <<Event("fallback", 0), Event("simple", 0)>>)
          ELSE Finished(call, formatResult(simple, "simple", content),
                        <<Event("simple", 0)>>)

\* summarizeText after `await this.executeWithRetry(...)`: primary is what
\* the retry wrapper returned or threw
afterRetry(call, primary) ==
  LET content == trimmedContent(call)
      validated == validateAIResponse(primary.value, content)
  IN IF primary.threw
     THEN [call |-> catchBlock(
                      [call EXCEPT !.log = Append(@, Event("threw", call.attempt))],
                      primary.value),
           errors |-> 1]
     ELSE IF validated.threw
     THEN [call |-> catchBlock(
                      [call EXCEPT !.primaryText = primary.value,
                         !.log = Append(@, Event("returned", call.attempt))],
                      validated.value),
           errors |-> 1]
     ELSE [call |-> Finished([call EXCEPT !.primaryText = primary.value],
                      formatResult(validated.value, currentProvider, content),
                      <<Event("returned", call.attempt)>>),
           errors |-> 0]

\* attemptThrew counting an error for every failed attempt
attemptThrew_countingEach(call, message) ==
  LET failed == [call EXCEPT !.lastError = message, !.lastFailure = message,
                   !.log = Append(@, Event("failed", call.attempt))]
  IN IF call.attempt = maxRetriesOf(variant)
     THEN afterRetry(failed, Threw(failed.lastError))
     ELSE [call |-> [failed EXCEPT !.pc = "backoff",
                       !.log = Append(@, Event("wait", backoffDelay(call.attempt)))],
           errors |-> 1]

\* the catch block of executeWithRetry: the attempt threw the message
attemptThrew(call, message) ==
  LET failed == [call EXCEPT !.lastError = message, !.lastFailure = message,
                   !.log = Append(@, Event("failed", call.attempt))]
  IN IF call.attempt = maxRetriesOf(variant)
     THEN afterRetry(failed, Threw(failed.lastError))
     ELSE [call |-> [failed EXCEPT !.pc = "backoff",
                       !.log = Append(@, Event("wait", backoffDelay(call.attempt)))],
           errors |-> 0]

\* executeWithRetry calls fn(...args) for the k-th time
startAttempt(call, k) ==
  LET started == [call EXCEPT !.attempt = k, !.model = 1,
                    !.log = Append(@, Event("attempt", k))]
      requested == [call |-> [started EXCEPT !.pc = "request",
                                !.log = Append(@, Event("request", 1))],
                    errors |-> 0]
  IN CASE currentProvider = "fallback" ->
            afterRetry(started,
              engineOn(variant, trimmedContent(call), call.maxLength,
                       call.style))
       [] currentProvider = "huggingface" ->
            IF variant # "backend" /\ config.huggingFaceApiKey = ""
            THEN attemptThrew(started, "Hugging Face API key not configured")
            ELSE requested
       [] currentProvider = "openai" ->
            IF config.openaiApiKey = ""
            THEN attemptThrew(started, "OpenAI API key not configured")
            ELSE requested

\* the history of completed summarizeText calls
Tallied(call) ==
  IF call.pc # "done" THEN tally
  ELSE [calls |-> tally.calls + 1,
        rejected |-> tally.rejected
                       + (IF call.outcome.kind = "ValidationError" THEN 1 ELSE 0),
        degraded |-> tally.degraded
                       + (IF call.outcome.kind = "AIServiceError"
                             \/ (call.outcome.kind = "result"
                                 /\ call.outcome.provider # currentProvider)
                          THEN 1 ELSE 0)]

\* Proceed writing the error counter from the step alone, as a handler would
\* that read the counter before its await and wrote it back afterwards
Proceed_overwriting(c, step) ==
  /\ calls' = [calls EXCEPT ![c] = step.call]
  /\ errorCount' = step.errors
  /\ tally' = Tallied(step.call)

\* the effect of a step of summarizeText on the call and on errorCount
Proceed(c, step) ==
  /\ calls' = [calls EXCEPT ![c] = step.call]
  /\ errorCount' = errorCount + step.errors
  /\ tally' = Tallied(step.call)

\* summarizeTextFrame of a service that demotes itself to the engine once
\* a call has counted an error
summarizeTextFrame_demoting ==
  /\ UNCHANGED <<variant, config>>
  /\ currentProvider' = IF errorCount' > errorCount THEN "fallback"
                        ELSE currentProvider

\* what summarizeText never assigns
summarizeTextFrame == UNCHANGED <<variant, config, currentProvider>>

\* the number of summarizeText calls made so far
Made ==
  tally.calls
    + Cardinality({d \in Callers : calls[d].pc \in {"request", "backoff"}
                                     /\ calls[d].op = "summarizeText"})

\* summarizeText(content, options) up to its first suspension
summarizeText(c, content, options) ==
  LET call == [Idle EXCEPT !.op = "summarizeText", !.input = content,
                 !.maxLength = maxLengthIn(options),
                 !.style = styleIn(options)]
      message == validateInput(variant, content)
  IN /\ calls[c].pc = "idle"
     /\ Made < MaxCalls
     /\ IF message # ""
        THEN /\ Proceed(c, [call |-> Finished(call,
                                       Rejection("ValidationError", message),
                                       <<>>),
                            errors |-> 0])
             /\ UNCHANGED requestCount
        ELSE /\ requestCount' = requestCount + 1
             /\ Proceed(c, startAttempt(call, 1))
     /\ summarizeTextFrame

\* the answer to the outstanding request of a summarizeText call arrives
providerResponse(c, resp) ==
  LET call == calls[c]
      answer == CASE currentProvider = "openai" -> openaiSummarize(resp)
                  [] currentProvider = "huggingface" /\ variant = "backend" ->
                       huggingFaceSummarize_backend(resp)
                  [] OTHER -> huggingFaceModel(resp)
  IN /\ call.pc = "request"
     /\ call.op = "summarizeText"
     /\ IF ~answer.threw
        THEN Proceed(c, afterRetry(call, answer))
        ELSE IF currentProvider = "huggingface" /\ call.model < modelsOf(variant)
        THEN Proceed(c, [call |-> [call EXCEPT !.model = @ + 1,
                                     !.log = Append(@, Event("request", call.model + 1))],
                         errors |-> 0])
        ELSE Proceed(c, attemptThrew(call, answer.value))
     /\ UNCHANGED requestCount
     /\ summarizeTextFrame

\* the setTimeout of executeWithRetry fires
retryTimer(c) ==
  /\ calls[c].pc = "backoff"
  /\ Proceed(c, startAttempt(calls[c], calls[c].attempt + 1))
  /\ UNCHANGED requestCount
  /\ summarizeTextFrame

\* the client takes the outcome
clientReturns(c) ==
  /\ calls[c].pc = "done"
  /\ calls' = [calls EXCEPT ![c] = Idle]
  /\ UNCHANGED <<variant, config, currentProvider, requestCount, errorCount,
                 tally>>

\* the successRate of getStats in hundredths of a percent
successRate ==
  IF requestCount > 0
  THEN (2 * (requestCount - errorCount) * 10000 + requestCount)
         \div (2 * requestCount)
  ELSE 0

getStats(c) ==
  /\ calls[c].pc = "idle"
  /\ calls' = [calls EXCEPT ![c] =
       [Idle EXCEPT !.pc = "done", !.op = "getStats",
          !.outcome = [NoOutcome EXCEPT !.kind = "stats",
                                        !.provider = currentProvider],
          !.stats = [requestCount |-> requestCount, errorCount |-> errorCount,
                     successRate |-> successRate]]]
  /\ UNCHANGED <<variant, config, currentProvider, requestCount, errorCount,
                 tally>>

HealthCheckText == "This is a test sentence for health check purposes."

Health(status, message) ==
  [NoOutcome EXCEPT !.kind = "health", !.summary = status,
                    !.provider = currentProvider, !.message = message]

\* healthCheck testing every network provider, whichever it is
healthCheck_anyNetwork(c) ==
  /\ calls[c].pc = "idle"
  /\ calls' = [calls EXCEPT ![c] =
       IF currentProvider # "fallback"
       THEN [Idle EXCEPT !.pc = "request", !.op = "healthCheck",
                         !.input = Str(HealthCheckText), !.maxLength = 50,
                         !.log = <<Event("request", 1)>>]
       ELSE [Idle EXCEPT !.pc = "done", !.op = "healthCheck",
                         !.outcome = Health("healthy", "")]]
  /\ UNCHANGED <<variant, config, currentProvider, requestCount, errorCount,
                 tally>>

\* healthCheck up to its suspension
healthCheck(c) ==
  /\ calls[c].pc = "idle"
  /\ calls' = [calls EXCEPT ![c] =
       IF currentProvider = "openai" /\ config.openaiApiKey # ""
       THEN [Idle EXCEPT !.pc = "request", !.op = "healthCheck",
                         !.input = Str(HealthCheckText), !.maxLength = 50,
                         !.log = <<Event("request", 1)>>]
       ELSE [Idle EXCEPT !.pc = "done", !.op = "healthCheck",
                         !.outcome = Health("healthy", "")]]
  /\ UNCHANGED <<variant, config, currentProvider, requestCount, errorCount,
                 tally>>

\* the answer to the test request of healthCheck arrives
healthCheckResponse(c, resp) ==
  LET answer == openaiSummarize(resp)
  IN /\ calls[c].pc = "request"
     /\ calls[c].op = "healthCheck"
     /\ calls' = [calls EXCEPT ![c] =
          [@ EXCEPT !.pc = "done",
             !.log = Append(@, Event(IF answer.threw THEN "failed"
                                     ELSE "returned", 1)),
             !.outcome = IF answer.threw
                         THEN Health("unhealthy", answer.value)
                         ELSE Health("healthy", "")]]
     /\ UNCHANGED <<variant, config, currentProvider, requestCount,
                    errorCount, tally>>

(***************************************************************************)
(* note-app-backend/src/controllers/aiController.js: the request handlers  *)
(* of one user.  userRequestCounts maps the user to an array of            *)
(* timestamps; arrays are objects, so the map holds a reference, and each  *)
(* handler holds the array its own filter() created.                       *)
(***************************************************************************)

RATE_LIMIT_WINDOW == 60 * 60 * 1000

MAX_REQUESTS_PER_HOUR == 20

\* note.content.length < 100
MinNoteLength == 100

\* the maxlength of summary in the schema of Note
SummaryMaxLength == 1000

\* the number of steps of the clock, of half a window each
MaxTicks == 1

\* the number of requests the user sends
MaxRequests == 2

TickLength == RATE_LIMIT_WINDOW \div 2

\* Date.now() when the behaviour begins
StartTime == RATE_LIMIT_WINDOW

\* a Date field that is null
NoDate == 0 - 1

NoResponse ==
  [kind |-> "none", cached |-> FALSE, summary |-> "", summarizedAt |-> NoDate,
   provider |-> ""]

\* the error a handler throws or the error body it sends
Failure(kind) == [NoResponse EXCEPT !.kind = kind]

HandlerIdle ==
  [pc |-> "idle", op |-> "none", noteId |-> "", style |-> "",
   refresh |-> FALSE, now |-> 0, response |-> NoResponse,
   \* batchSummarize: noteIds, the notes found and not yet processed, and
   \* the lengths of results and errors
   noteIds |-> <<>>, pending |-> <<>>, successful |-> 0, failed |-> 0]

Responded(handler, response) ==
  [handler EXCEPT !.pc = "responded", !.response = response]

\* the arrays of timestamps: the one stored before the handlers ran, and
\* the validRequests of each handler
ArrayIds == Callers \cup {"stored"}

\* userRequests.filter(timestamp => now - timestamp < RATE_LIMIT_WINDOW)
RECURSIVE filterRecent(_, _)
filterRecent(userRequests, now) ==
  IF userRequests = <<>> THEN <<>>
  ELSE (IF now - Head(userRequests) < RATE_LIMIT_WINDOW
        THEN <<Head(userRequests)>> ELSE <<>>)
         \o filterRecent(Tail(userRequests), now)

\* userRequestCounts.get(userKey), after the entry has been created
userRequestsOf ==
  IF userRequestCounts = "none" THEN <<>> ELSE arrays[userRequestCounts]

\* recentlySummarized counting a summary exactly one hour old as recent
recentlySummarized_inclusive(note, now) ==
  /\ note.summary # ""
  /\ note.summarizedAt # NoDate
  /\ note.summarizedAt >= now - 60 * 60 * 1000

\* note.summary && note.summarizedAt && note.summarizedAt > oneHourAgo,
\* with oneHourAgo = new Date(Date.now() - 60 * 60 * 1000)
recentlySummarized(note, now) ==
  /\ note.summary # ""
  /\ note.summarizedAt # NoDate
  /\ note.summarizedAt > now - 60 * 60 * 1000

\* summaryOptions
summaryOptions(style) ==
  [maxLength |-> 150, style |-> IF style = "" THEN "concise" ELSE style]

\* the locals of summarizeNote, for the request with the id and the body
Started(id, body) ==
  [HandlerIdle EXCEPT !.op = "summarizeNote", !.noteId = id,
     !.style = body.style, !.refresh = body.refresh, !.now = clock]

\* the rate limiting check of summarizeNote, given validRequests
rateLimitCheck(c, id, body, validRequests) ==
  /\ arrays' = [arrays EXCEPT ![c] = validRequests]
  /\ userRequestCounts' = c
  /\ handlers' = [handlers EXCEPT ![c] =
       IF Len(validRequests) >= MAX_REQUESTS_PER_HOUR
       THEN Responded(Started(id, body), Failure("RateLimitError"))
       ELSE [Started(id, body) EXCEPT !.pc = "findOne"]]

\* summarizeNote up to `await Note.findOne(...)`
summarizeNote(c, id, body) ==
  /\ handlers[c].pc = "idle"
  /\ calls[c].pc = "idle"
  /\ history.requests < MaxRequests
  /\ rateLimitCheck(c, id, body, filterRecent(userRequestsOf, clock))
  /\ history' = [history EXCEPT !.requests = @ + 1]
  /\ UNCHANGED <<clock, notes>>
  /\ UNCHANGED <<variant, config, currentProvider, requestCount, errorCount,
                 calls, tally>>

\* the handler answers without calling the core
answerAtOnce(c, response) ==
  /\ handlers' = [handlers EXCEPT ![c] = Responded(@, response)]
  /\ UNCHANGED <<clock, notes, userRequestCounts, arrays, history>>
  /\ UNCHANGED <<variant, config, currentProvider, requestCount, errorCount,
                 calls, tally>>

\* "Record the request" and "Generate summary", up to the suspension of
\* aiService.summarizeText
recordAndSummarize(c, note) ==
  /\ arrays' = [arrays EXCEPT ![c] = Append(@, handlers[c].now)]
  /\ userRequestCounts' = c
  /\ summarizeText(c, Str(note.content), summaryOptions(handlers[c].style))
  /\ handlers' = [handlers EXCEPT ![c].pc = "core"]
  /\ history' = [history EXCEPT !.coreCalls = Append(@, clock)]
  /\ UNCHANGED <<clock, notes>>

\* summarizeNote from the answer of Note.findOne to its next suspension
noteFound(c) ==
  /\ handlers[c].pc = "findOne"
  /\ handlers[c].op = "summarizeNote"
  /\ IF handlers[c].noteId \notin DOMAIN notes
     THEN answerAtOnce(c, Failure("NotFoundError"))
     ELSE IF recentlySummarized(notes[handlers[c].noteId], clock)
     THEN answerAtOnce(c,
            [kind |-> "success", cached |-> TRUE,
             summary |-> notes[handlers[c].noteId].summary,
             summarizedAt |-> notes[handlers[c].noteId].summarizedAt,
             provider |-> ""])
     ELSE IF Len(notes[handlers[c].noteId].content) < MinNoteLength
     THEN answerAtOnce(c, Failure("ValidationError"))
     ELSE recordAndSummarize(c, notes[handlers[c].noteId])

\* saved writing the summary and leaving summarizedAt as it was
saved_withoutDate(id, summary) ==
  IF Len(summary) > SummaryMaxLength THEN notes
  ELSE [notes EXCEPT ![id].summary = summary]

\* note.summary = result.summary; note.summarizedAt = new Date();
\* await note.save(): the schema rejects a summary that is too long
saved(id, summary) ==
  IF Len(summary) > SummaryMaxLength THEN notes
  ELSE [notes EXCEPT ![id].summary = summary, ![id].summarizedAt = clock]

\* what summarizeNote sends once aiService.summarizeText has settled
responseTo(outcome) ==
  IF outcome.kind = "result"
  THEN IF Len(outcome.summary) > SummaryMaxLength
       THEN Failure("SaveError")
       ELSE [kind |-> "success", cached |-> FALSE,
             summary |-> outcome.summary, summarizedAt |-> clock,
             provider |-> outcome.provider]
  ELSE IF outcome.kind = "AIServiceError"
  THEN Failure("AI_SERVICE_UNAVAILABLE")
  ELSE Failure(outcome.kind)

\* summarizeNote after `await aiService.summarizeText(...)`
coreReturns(c) ==
  /\ handlers[c].pc = "core"
  /\ handlers[c].op = "summarizeNote"
  /\ calls[c].pc = "done"
  /\ notes' = IF calls[c].outcome.kind = "result"
              THEN saved(handlers[c].noteId, calls[c].outcome.summary)
              ELSE notes
  /\ handlers' = [handlers EXCEPT ![c] =
                    Responded(@, responseTo(calls[c].outcome))]
  /\ calls' = [calls EXCEPT ![c] = Idle]
  /\ UNCHANGED <<clock, userRequestCounts, arrays, history>>
  /\ UNCHANGED <<variant, config, currentProvider, requestCount, errorCount,
                 tally>>

\* the response has been sent
requestEnds(c) ==
  /\ handlers[c].pc = "responded"
  /\ handlers' = [handlers EXCEPT ![c] = HandlerIdle]
  /\ UNCHANGED <<clock, notes, userRequestCounts, arrays, history>>
  /\ UNCHANGED <<variant, config, currentProvider, requestCount, errorCount,
                 calls, tally>>

\* time passes
tick ==
  /\ clock < StartTime + MaxTicks * TickLength
  /\ clock' = clock + TickLength
  /\ UNCHANGED <<notes, userRequestCounts, arrays, handlers, history>>
  /\ UNCHANGED <<variant, config, currentProvider, requestCount, errorCount,
                 calls, tally>>

(***************************************************************************)
(* The notes of the user and the requests recorded for the user.           *)
(***************************************************************************)

NoteIds == {"plain", "recent", "brief", "padded"}

\* a note without summary
Note(content) == [content |-> content, summary |-> "", summarizedAt |-> NoDate]

\* the database when the behaviour begins: the note "recent" was
\* summarized half an hour ago
InitialNotes ==
  [id \in NoteIds |->
     CASE id = "plain" -> Note(TSpec)
       [] id = "recent" ->
            [content |-> TError, summary |-> "A summary made earlier.",
             summarizedAt |-> StartTime - TickLength]
       [] id = "brief" -> Note(TShort)
       [] id = "padded" -> Note(TNinetyNine)]

\* the ids a request may name: the notes of the user and an unknown one
RequestedIds == NoteIds \cup {"unknown"}

\* req.body.style: absent, or a style
Styles == {""}

\* the requests of the client: 'Summarize' for any id, and 'Regenerate
\* Summary', which sends refresh: true, for the note that has a summary
Requests ==
  {<<id, [style |-> style, refresh |-> FALSE]>> :
     id \in RequestedIds, style \in Styles}
    \cup {<<"recent", [style |-> style, refresh |-> TRUE]>> : style \in Styles}

\* n timestamps of consecutive milliseconds, the last one being `last`
Timestamps(n, last) == [i \in 1..n |-> last - n + i]

\* the requests recorded for the user when the behaviour begins: none, or
\* up to the quota made half an hour ago
StoredRequests ==
  {<<>>,
   Timestamps(MAX_REQUESTS_PER_HOUR - 1, StartTime - TickLength),
   Timestamps(MAX_REQUESTS_PER_HOUR, StartTime - TickLength)}

\* no request has reached the controller
ControllerAtRest ==
  /\ clock = StartTime
  /\ notes = InitialNotes
  /\ userRequestCounts = "none"
  /\ arrays = [a \in ArrayIds |-> <<>>]
  /\ handlers = [c \in Callers |-> HandlerIdle]
  /\ history = [requests |-> 0, coreCalls |-> <<>>]

(***************************************************************************)
(* aiController.js: batchSummarize.  The handler keeps its validRequests   *)
(* array to itself until it has processed every note.                      *)
(***************************************************************************)

\* the order in which Note.find returns the notes of the collection
NoteOrder == <<"plain", "recent", "brief", "padded">>

\* noteIds.length > 10
MaxBatchSize == 10

\* batchCost counting every note of the batch once
batchCost_single(noteIds) == Len(noteIds)

\* const batchCost = noteIds.length * 2
batchCost(noteIds) == Len(noteIds) * 2

\* Note.find({_id: {$in: noteIds}, ...}): the documents as they are now
RECURSIVE findNotes(_, _)
findNotes(order, noteIds) ==
  IF order = <<>> THEN <<>>
  ELSE (IF \E i \in DOMAIN noteIds : noteIds[i] = Head(order)
        THEN <<[id |-> Head(order), note |-> notes[Head(order)]]>>
        ELSE <<>>)
         \o findNotes(Tail(order), noteIds)

BatchStarted(noteIds, style) ==
  [HandlerIdle EXCEPT !.op = "batchSummarize", !.noteIds = noteIds,
     !.style = style, !.now = clock]

\* batchSummarize up to `await Note.find(...)`.  The array the Map holds
\* stays in the Map: when it is the one this handler made for an earlier
\* request, it is kept under "stored" from now on, and the handler's name
\* stands for its new validRequests.
batchSummarize(c, noteIds, style) ==
  /\ handlers[c].pc = "idle"
  /\ calls[c].pc = "idle"
  /\ history.requests < MaxRequests
  /\ history' = [history EXCEPT !.requests = @ + 1]
  /\ IF noteIds = <<>> \/ Len(noteIds) > MaxBatchSize
     THEN /\ handlers' = [handlers EXCEPT ![c] =
               Responded(BatchStarted(noteIds, style), Failure("ValidationError"))]
          /\ UNCHANGED <<userRequestCounts, arrays>>
     ELSE /\ userRequestCounts' = IF userRequestCounts \in {"none", c}
                                  THEN "stored" ELSE userRequestCounts
          /\ arrays' = [arrays EXCEPT
               !["stored"] = IF userRequestCounts = c THEN arrays[c] ELSE @,
               ![c] = filterRecent(userRequestsOf, clock)]
          /\ handlers' = [handlers EXCEPT ![c] =
               IF Len(filterRecent(userRequestsOf, clock)) + batchCost(noteIds)
                    > MAX_REQUESTS_PER_HOUR
               THEN Responded(BatchStarted(noteIds, style),
                              Failure("RateLimitError"))
               ELSE [BatchStarted(noteIds, style) EXCEPT !.pc = "find"]]
  /\ UNCHANGED <<clock, notes>>
  /\ UNCHANGED <<variant, config, currentProvider, requestCount, errorCount,
                 calls, tally>>

\* batchSummarize from the answer of Note.find to the loop
batchFound(c) ==
  /\ handlers[c].pc = "find"
  /\ handlers[c].op = "batchSummarize"
  /\ handlers' = [handlers EXCEPT ![c] =
       IF findNotes(NoteOrder, handlers[c].noteIds) = <<>>
       THEN Responded(@, Failure("NotFoundError"))
       ELSE [@ EXCEPT !.pc = "loop",
               !.pending = findNotes(NoteOrder, handlers[c].noteIds)]]
  /\ UNCHANGED <<clock, notes, userRequestCounts, arrays, history>>
  /\ UNCHANGED <<variant, config, currentProvider, requestCount, errorCount,
                 calls, tally>>

\* the loop passes on to the next note without calling the core
skipNote(c, result) ==
  /\ handlers' = [handlers EXCEPT ![c].pending = Tail(@),
                    ![c].successful = @ + (IF result = "cached" THEN 1 ELSE 0),
                    ![c].failed = @ + (IF result = "cached" THEN 0 ELSE 1)]
  /\ UNCHANGED <<clock, notes, userRequestCounts, arrays, history>>
  /\ UNCHANGED <<variant, config, currentProvider, requestCount, errorCount,
                 calls, tally>>

\* one pass of `for (const note of notes)` up to its await
batchNote(c) ==
  /\ handlers[c].pc = "loop"
  /\ handlers[c].pending # <<>>
  /\ IF recentlySummarized(Head(handlers[c].pending).note, clock)
     THEN skipNote(c, "cached")
     ELSE IF Len(Head(handlers[c].pending).note.content) < MinNoteLength
     THEN skipNote(c, "short")
     ELSE /\ summarizeText(c, Str(Head(handlers[c].pending).note.content),
                           summaryOptions(handlers[c].style))
          /\ handlers' = [handlers EXCEPT ![c].pc = "batchCore"]
          /\ history' = [history EXCEPT !.coreCalls = Append(@, clock)]
          /\ UNCHANGED <<clock, notes, userRequestCounts, arrays>>

\* the core returned a summary the schema accepts
batchSaves(call) ==
  /\ call.outcome.kind = "result"
  /\ Len(call.outcome.summary) <= SummaryMaxLength

\* the pass after `await aiService.summarizeText(...)`: save, results.push
\* and validRequests.push(now, now), or the catch block
batchCoreReturns(c) ==
  /\ handlers[c].pc = "batchCore"
  /\ calls[c].pc = "done"
  /\ notes' = IF batchSaves(calls[c])
              THEN saved(Head(handlers[c].pending).id, calls[c].outcome.summary)
              ELSE notes
  /\ arrays' = IF batchSaves(calls[c])
               THEN [arrays EXCEPT ![c] = @ \o <<handlers[c].now, handlers[c].now>>]
               ELSE arrays
  /\ handlers' = [handlers EXCEPT ![c].pc = "loop", ![c].pending = Tail(@),
                    ![c].successful = @ + (IF batchSaves(calls[c]) THEN 1 ELSE 0),
                    ![c].failed = @ + (IF batchSaves(calls[c]) THEN 0 ELSE 1)]
  /\ calls' = [calls EXCEPT ![c] = Idle]
  /\ UNCHANGED <<clock, userRequestCounts, history>>
  /\ UNCHANGED <<variant, config, currentProvider, requestCount, errorCount,
                 tally>>

\* "Update rate limiting" and the response
batchEnds(c) ==
  /\ handlers[c].pc = "loop"
  /\ handlers[c].pending = <<>>
  /\ userRequestCounts' = c
  /\ handlers' = [handlers EXCEPT ![c] =
                    Responded(@, [NoResponse EXCEPT !.kind = "success"])]
  /\ UNCHANGED <<clock, notes, arrays, history>>
  /\ UNCHANGED <<variant, config, currentProvider, requestCount, errorCount,
                 calls, tally>>

(***************************************************************************)
(* The specification: a client that issues one operation at a time.        *)
(***************************************************************************)

Init ==
  /\ variant \in Variants
  /\ config \in [huggingFaceApiKey : KeyValues, openaiApiKey : KeyValues]
  /\ currentProvider = IF variant = "backend" THEN constructor_backend(config)
                       ELSE selectPrimaryProvider(config)
  /\ requestCount = 0
  /\ errorCount = 0
  /\ calls = [c \in Callers |-> Idle]
  /\ tally = [calls |-> 0, rejected |-> 0, degraded |-> 0]
  /\ ControllerAtRest

AllIdle == \A c \in Callers : calls[c].pc = "idle"

Next ==
  \/ /\ \E input \in Inputs : AllIdle /\ summarizeText("c1", input[1], input[2])
     /\ UNCHANGED controllerVars
  \/ /\ \E resp \in Responses(trimmedContent(calls["c1"])) :
          providerResponse("c1", resp)
     /\ UNCHANGED controllerVars
  \/ retryTimer("c1") /\ UNCHANGED controllerVars
  \/ AllIdle /\ getStats("c1") /\ UNCHANGED controllerVars
  \/ AllIdle /\ healthCheck("c1") /\ UNCHANGED controllerVars
  \/ /\ \E resp \in Responses(HealthCheckText) : healthCheckResponse("c1", resp)
     /\ UNCHANGED controllerVars
  \/ clientReturns("c1") /\ UNCHANGED controllerVars

Spec == Init /\ [][Next]_vars

TypeOK ==
  /\ variant \in Variants
  /\ currentProvider \in {"huggingface", "openai", "fallback"}
  /\ requestCount \in 0..MaxCalls
  /\ errorCount \in 0..MaxCalls

(***************************************************************************)
(* Concurrent calls: the handlers of two requests call the singleton, and  *)
(* each call may be suspended at a provider request or at a backoff delay  *)
(* while the other one starts, resumes or finishes.                        *)
(***************************************************************************)

\* the (content, options) pairs of the concurrent calls
ConcurrentInputs ==
  {<<JsNull, NoOptions>>, <<Str(TShort), NoOptions>>, <<Str(TSpec), NoOptions>>,
   <<Str(TError), NoOptions>>,
   <<Str(TSpec), [maxLength |-> 50, style |-> "bullet"]>>}

\* the answers a provider gives to the request of a concurrent call
ConcurrentResponses ==
  {[kind |-> "ok", status |-> 200, text |-> "A short summary of the note."],
   [kind |-> "ok", status |-> 200, text |-> "error: the model is loading"],
   [kind |-> "timeout", status |-> 0, text |-> ""]}

NextConcurrent ==
  \/ /\ \E c \in Callers : \E input \in ConcurrentInputs :
          summarizeText(c, input[1], input[2])
     /\ UNCHANGED controllerVars
  \/ /\ \E c \in Callers : \E resp \in ConcurrentResponses :
          providerResponse(c, resp)
     /\ UNCHANGED controllerVars
  \/ (\E c \in Callers : retryTimer(c)) /\ UNCHANGED controllerVars
  \/ (\E c \in Callers : clientReturns(c)) /\ UNCHANGED controllerVars

SpecConcurrent == Init /\ [][NextConcurrent]_vars

(***************************************************************************)
(* The controller of note-app-backend in front of its service: requests of *)
(* one user, handled concurrently.                                         *)
(***************************************************************************)

\* the answers a provider gives to the request of a call of a handler
ControllerResponses ==
  {[kind |-> "ok", status |-> 200, text |-> "A short summary of the note."],
   [kind |-> "timeout", status |-> 0, text |-> ""]}

\* the service as constructed, and a controller that has recorded requests
\* of the user, each of which reached the core when it was recorded
InitController ==
  /\ variant = "note-app-backend"
  /\ config \in [huggingFaceApiKey : {""}, openaiApiKey : KeyValues]
  /\ currentProvider = selectPrimaryProvider(config)
  /\ requestCount = 0
  /\ errorCount = 0
  /\ calls = [c \in Callers |-> Idle]
  /\ tally = [calls |-> 0, rejected |-> 0, degraded |-> 0]
  /\ clock = StartTime
  /\ notes = InitialNotes
  /\ \E stored \in StoredRequests :
       /\ userRequestCounts = IF stored = <<>> THEN "none" ELSE "stored"
       /\ arrays = [a \in ArrayIds |-> IF a = "stored" THEN stored ELSE <<>>]
       /\ history = [requests |-> 0, coreCalls |-> stored]
  /\ handlers = [c \in Callers |-> HandlerIdle]

NextController ==
  \/ \E c \in Callers : \E request \in Requests :
       summarizeNote(c, request[1], request[2])
  \/ \E c \in Callers : noteFound(c)
  \/ /\ \E c \in Callers : \E resp \in ControllerResponses :
          providerResponse(c, resp)
     /\ UNCHANGED controllerVars
  \/ (\E c \in Callers : retryTimer(c)) /\ UNCHANGED controllerVars
  \/ \E c \in Callers : coreReturns(c)
  \/ \E c \in Callers : requestEnds(c)
  \/ tick

SpecController == InitController /\ [][NextController]_vars

(***************************************************************************)
(* The fallback engine of note-app-backend at work: every request to the   *)
(* configured provider times out, so that summarizeText returns what       *)
(* tryFallbackSummarization made of the note.                              *)
(***************************************************************************)

EngineTexts ==
  {EThree, ELater, EFifteen, EEight, EEleven, ETwentyOne, ESingleLong,
   TSpec, TRunOn, TFrag}

EngineOptions ==
  {NoOptions,
   [maxLength |-> 50],
   [maxLength |-> 20],
   [maxLength |-> 150, style |-> "bullet"],
   [maxLength |-> 150, style |-> "detailed"]}

EngineInputs == {<<Str(text), options>> : text \in EngineTexts, options \in EngineOptions}

\* the 30 s timeout of axios.post
EngineResponses == {[kind |-> "timeout", status |-> 0, text |-> ""]}

InitEngine ==
  /\ variant = "note-app-backend"
  /\ config = [huggingFaceApiKey |-> "", openaiApiKey |-> "configured"]
  /\ currentProvider = selectPrimaryProvider(config)
  /\ requestCount = 0
  /\ errorCount = 0
  /\ calls = [c \in Callers |-> Idle]
  /\ tally = [calls |-> 0, rejected |-> 0, degraded |-> 0]
  /\ ControllerAtRest

NextEngine ==
  \/ /\ \E input \in EngineInputs :
          AllIdle /\ summarizeText("c1", input[1], input[2])
     /\ UNCHANGED controllerVars
  \/ /\ \E resp \in EngineResponses : providerResponse("c1", resp)
     /\ UNCHANGED controllerVars
  \/ retryTimer("c1") /\ UNCHANGED controllerVars
  \/ clientReturns("c1") /\ UNCHANGED controllerVars

SpecEngine == InitEngine /\ [][NextEngine]_vars

(***************************************************************************)
(* The controller with batch and single-note requests of one user, over a  *)
(* service without network credentials.                                    *)
(***************************************************************************)

\* req.body.noteIds: each batch has at most one note the core is called
\* for, so that the requests of a behaviour stay within MaxCalls
BatchNoteIds ==
  {<<>>, <<"unknown">>, <<"padded">>, <<"recent">>, <<"plain">>,
   <<"plain", "brief">>,
   [i \in 1..MaxBatchSize |-> "plain"],
   [i \in 1..(MaxBatchSize + 1) |-> "plain"]}

\* the requests recorded half an hour ago: none, or 8, 2 or 1 below the
\* quota
StoredBeforeBatch ==
  {<<>>} \cup {Timestamps(MAX_REQUESTS_PER_HOUR - k, StartTime - TickLength) :
                 k \in {8, 2, 1}}

InitBatch ==
  /\ variant = "note-app-backend"
  /\ config = [huggingFaceApiKey |-> "", openaiApiKey |-> ""]
  /\ currentProvider = selectPrimaryProvider(config)
  /\ requestCount = 0
  /\ errorCount = 0
  /\ calls = [c \in Callers |-> Idle]
  /\ tally = [calls |-> 0, rejected |-> 0, degraded |-> 0]
  /\ clock = StartTime
  /\ notes = InitialNotes
  /\ \E stored \in StoredBeforeBatch :
       /\ userRequestCounts = IF stored = <<>> THEN "none" ELSE "stored"
       /\ arrays = [a \in ArrayIds |-> IF a = "stored" THEN stored ELSE <<>>]
       /\ history = [requests |-> 0, coreCalls |-> stored]
  /\ handlers = [c \in Callers |-> HandlerIdle]

NextBatch ==
  \/ \E c \in Callers : \E noteIds \in BatchNoteIds : \E style \in Styles :
       batchSummarize(c, noteIds, style)
  \/ \E c \in Callers : batchFound(c)
  \/ \E c \in Callers : batchNote(c)
  \/ \E c \in Callers : batchCoreReturns(c)
  \/ \E c \in Callers : batchEnds(c)
  \/ \E c \in Callers : \E request \in Requests :
       summarizeNote(c, request[1], request[2])
  \/ \E c \in Callers : noteFound(c)
  \/ \E c \in Callers : coreReturns(c)
  \/ \E c \in Callers : requestEnds(c)
  \/ tick

SpecBatch == InitBatch /\ [][NextBatch]_vars

(***************************************************************************)
(* Properties of summarizeText.                                            *)
(***************************************************************************)

\* the calls of summarizeText that have settled
Settled ==
  {c \in Callers : calls[c].op = "summarizeText" /\ calls[c].pc = "done"}

\* the attempt budget summarizeText passes to executeWithRetry
Budget == IF variant = "backend" THEN 3 ELSE 2

\* the trimmed length of the content of a call, -1 when it is no string
TrimmedLength(call) ==
  IF call.input.type = "string" THEN Len(trim(call.input.value)) ELSE -1

\* the trimmed length lies within the limits of the running file
InRange(call) ==
  IF variant = "backend"
  THEN TrimmedLength(call) >= 50 /\ TrimmedLength(call) <= 10000
  ELSE TrimmedLength(call) >= 100 /\ TrimmedLength(call) <= 50000

\* the retry wrapper gave up on the primary provider of the call
Exhausted(call) == \E i \in DOMAIN call.log : call.log[i].e = "threw"

\* C1: a call whose trimmed content is within the length limits settles
\* with a result object, never with an error; and when every attempt of
\* the network provider failed, or no network credential is configured,
\* the result carries a non-empty summary made by the fallback engine or by
\* the truncation.
C1_InRangeCallsReturnAResult ==
  \A c \in Settled :
    InRange(calls[c]) =>
      /\ calls[c].outcome.kind = "result"
      /\ (Exhausted(calls[c]) \/ currentProvider = "fallback") =>
           /\ calls[c].outcome.summary # ""
           /\ calls[c].outcome.provider \in {"fallback", "simple"}

\* C2: a string whose trimmed length is below the minimum (100 in
\* note-app-backend, 50 in backend) is rejected with a ValidationError, no
\* summary is produced and no provider, engine or truncation is invoked.
C2_TooShortIsRejected ==
  \A c \in Callers :
    (/\ calls[c].op = "summarizeText"
     /\ TrimmedLength(calls[c]) >= 0
     /\ TrimmedLength(calls[c])
          < (IF variant = "backend" THEN 50 ELSE 100)) =>
      /\ calls[c].pc = "done"
      /\ calls[c].outcome.kind = "ValidationError"
      /\ calls[c].outcome.summary = ""
      /\ calls[c].log = <<>>

\* a note of 68 characters, enough for backend, was rejected by
\* note-app-backend
C2_Witness ==
  \E c \in Settled :
    /\ variant = "note-app-backend"
    /\ TrimmedLength(calls[c]) >= 50
    /\ TrimmedLength(calls[c]) < 100
    /\ calls[c].outcome.kind = "ValidationError"
    /\ calls[c].log = <<>>

\* C3: content that is no string, is empty, is only whitespace, or whose
\* trimmed length exceeds the maximum (50000 in note-app-backend, 10000 in
\* backend) is rejected with a ValidationError; no summary is produced and
\* nothing is invoked.
C3_MalformedIsRejected ==
  \A c \in Callers :
    (/\ calls[c].op = "summarizeText"
     /\ \/ calls[c].input.type # "string"
        \/ TrimmedLength(calls[c]) = 0
        \/ TrimmedLength(calls[c])
             > (IF variant = "backend" THEN 10000 ELSE 50000)) =>
      /\ calls[c].pc = "done"
      /\ calls[c].outcome.kind = "ValidationError"
      /\ calls[c].outcome.summary = ""
      /\ calls[c].log = <<>>

\* a note of 10001 characters was rejected by backend after a call with
\* content that is no string had been rejected
C3_Witness ==
  \E c \in Settled :
    /\ variant = "backend"
    /\ TrimmedLength(calls[c]) = 10001
    /\ calls[c].outcome.kind = "ValidationError"
    /\ tally.rejected = 2

(***************************************************************************)
(* Counters.                                                               *)
(***************************************************************************)

\* no call of summarizeText is in progress
Quiet == \A c \in Callers : calls[c].pc \in {"idle", "done"}

TierOf(call) ==
  LET log == call.log
  IN IF log[Len(log)].e = "simple" THEN "simple"
     ELSE IF log[Len(log)].e = "fallback" THEN "fallback"
     ELSE currentProvider

\* the primary provider is never invoked after another tier, the
\* truncation comes last and only after the engine threw or after the
\* engine failed as the primary provider, and the provider field names the
\* tier
TiersInOrder(call) ==
  LET log == call.log
  IN /\ \A i \in DOMAIN log :
          /\ log[i].e \in {"fallback", "simple"} =>
               \A j \in DOMAIN log :
                 j > i => log[j].e \notin {"attempt", "request", "wait"}
          /\ log[i].e = "simple" =>
               /\ i = Len(log)
               /\ i > 1
               /\ \/ /\ log[i - 1].e = "fallback"
                     /\ engineOn(variant, trimmedContent(call),
                                 call.maxLength, call.style).threw
                  \/ /\ log[i - 1].e \in {"threw", "returned"}
                     /\ currentProvider = "fallback"
     /\ (call.pc = "done" /\ call.outcome.kind = "result") =>
          call.outcome.provider = TierOf(call)

C6_RetryWrapper ==
  \A c \in Callers :
    calls[c].op = "summarizeText" =>
      LET log == calls[c].log
          attemptsBefore(i) ==
            Cardinality({j \in 1..(i - 1) : log[j].e = "attempt"})
          lower(a, b) == IF a < b THEN a ELSE b
      IN /\ \A i \in DOMAIN log :
              /\ log[i].e = "attempt" =>
                   /\ log[i].n = attemptsBefore(i) + 1
                   /\ log[i].n <= Budget
                   /\ log[i].n = 1 => i = 1
                   /\ log[i].n > 1 =>
                        /\ log[i - 1].e = "wait"
                        /\ log[i - 2] = Event("failed", log[i].n - 1)
              /\ log[i].e = "wait" =>
                   /\ log[i - 1].e = "failed"
                   /\ log[i - 1].n < Budget
                   /\ log[i].n
                        = lower(1000 * 2^(log[i - 1].n - 1), 10000)
                   /\ i < Len(log) => log[i + 1].e = "attempt"
              /\ log[i].e = "failed" =>
                   /\ log[i].n = attemptsBefore(i)
                   /\ i < Len(log)
                   /\ IF log[i].n < Budget
                      THEN log[i + 1].e = "wait"
                      ELSE log[i + 1] = Event("threw", Budget)
              /\ log[i].e = "returned" =>
                   \A j \in DOMAIN log : j > i => log[j].e # "attempt"
              /\ log[i].e = "threw" =>
                   /\ log[i - 1] = Event("failed", Budget)
                   /\ calls[c].caught = calls[c].lastFailure
                   /\ calls[c].caught # ""
         /\ calls[c].pc = "backoff" <=> (log # <<>> /\ log[Len(log)].e = "wait")

\* backend gave up after three attempts with waits of 1000 and 2000 ms
\* and threw the timeout error of its third attempt
C6_Witness ==
  \E c \in Settled :
    LET log == calls[c].log
    IN /\ \E i, j \in DOMAIN log :
            /\ i < j
            /\ log[i] = Event("wait", 1000)
            /\ log[j] = Event("wait", 2000)
       /\ \E i \in DOMAIN log : log[i] = Event("threw", 3)
       /\ calls[c].caught = "OpenAI request timeout"
       /\ calls[c].lastFailure = "OpenAI request timeout"

(***************************************************************************)
(* Response validation.                                                    *)
(***************************************************************************)

\* the failure phrases a provider's text must not begin with
FailurePhrases ==
  {"i cannot", "unable to", "sorry, i cannot", "as an ai", "i'm an ai",
   "error", "failed", "exception"}

BeginsWithFailurePhrase(text) ==
  \E phrase \in FailurePhrases :
    toLowerCase(substring0(text, Len(phrase))) = phrase

\* the text is empty, shorter than 10 characters after trimming, longer
\* than the trimmed input, or begins with a failure phrase
Unusable(text, content) ==
  \/ text = ""
  \/ Len(trim(text)) < 10
  \/ Len(trim(text)) > Len(content)
  \/ BeginsWithFailurePhrase(trim(text))

\* the primary provider of the call returned a text to summarizeText
PrimaryReturned(call) == \E i \in DOMAIN call.log : call.log[i].e = "returned"

\* C7: a text returned by the primary provider that is empty, shorter than
\* 10 characters after trimming, longer than the trimmed input, or that
\* begins with a failure phrase is never handed back as the summary under
\* that provider's name: the call counts as a provider failure and the
\* fallback path is taken (the engine or the truncation is invoked).
C7_UnusableTextTakesFallbackPath ==
  \A c \in Settled :
    (/\ PrimaryReturned(calls[c])
     /\ Unusable(calls[c].primaryText, trimmedContent(calls[c]))) =>
      /\ ~(/\ calls[c].outcome.kind = "result"
           /\ calls[c].outcome.provider = currentProvider)
      /\ calls[c].caught # ""
      /\ calls[c].log[Len(calls[c].log)].e \in {"fallback", "simple"}

\* C8 as stated: every result, whichever tier produced it, has a summary
\* that is non-empty, at least 10 characters long, at most originalLength
\* characters long, and that matches no failure phrase.
C8_EveryResultIsValidated ==
  \A c \in Settled :
    calls[c].outcome.kind = "result" =>
      /\ calls[c].outcome.originalLength = Len(trimmedContent(calls[c]))
      /\ calls[c].outcome.summary # ""
      /\ Len(calls[c].outcome.summary) >= 10
      /\ Len(calls[c].outcome.summary) <= calls[c].outcome.originalLength
      /\ ~BeginsWithFailurePhrase(calls[c].outcome.summary)

\* C8: every result has a non-empty summary and originalLength is the
\* length of the trimmed input; a result of the primary provider (its
\* provider field is currentProvider) moreover has a summary of at least
\* 10 and at most originalLength characters that matches no failure phrase.
C8_PrimaryResultIsValidated ==
  \A c \in Settled :
    calls[c].outcome.kind = "result" =>
      /\ calls[c].outcome.originalLength = Len(trimmedContent(calls[c]))
      /\ calls[c].outcome.summary # ""
      /\ calls[c].outcome.provider = currentProvider =>
           /\ Len(calls[c].outcome.summary) >= 10
           /\ Len(calls[c].outcome.summary) <= calls[c].outcome.originalLength
           /\ ~BeginsWithFailurePhrase(calls[c].outcome.summary)

\* a network provider answered with the note itself, the longest text the
\* validation lets through, and the call handed it back
C8_Witness ==
  \E c \in Settled :
    /\ currentProvider \in {"huggingface", "openai"}
    /\ calls[c].outcome.kind = "result"
    /\ calls[c].outcome.provider = currentProvider
    /\ Len(calls[c].outcome.summary) = calls[c].outcome.originalLength

(***************************************************************************)
(* Provider selection.                                                     *)
(***************************************************************************)

\* C9: the current provider is 'huggingface' if the Hugging Face key is
\* configured, else 'openai' if the OpenAI key is configured, else
\* 'fallback', for the four combinations of keys and in both files.
C9_ProviderPriority ==
  currentProvider =
    CASE config.huggingFaceApiKey # "" -> "huggingface"
      [] config.huggingFaceApiKey = "" /\ config.openaiApiKey # "" -> "openai"
      [] config.huggingFaceApiKey = "" /\ config.openaiApiKey = "" -> "fallback"

\* with both keys configured a call was answered by Hugging Face
C9_Witness ==
  \E c \in Settled :
    /\ config.huggingFaceApiKey # ""
    /\ config.openaiApiKey # ""
    /\ calls[c].outcome.kind = "result"
    /\ calls[c].outcome.provider = "huggingface"

\* C10: currentProvider is fixed for the lifetime of the service: no call
\* of summarizeText, getStats or healthCheck, and no step of one, changes
\* it.
C10_ProviderIsFixed == [][currentProvider' = currentProvider]_vars

\* after a call whose network provider failed, the next call has its
\* request out to the same network provider
C10_Witness ==
  \E c \in Callers :
    /\ tally.degraded >= 1
    /\ errorCount >= 1
    /\ currentProvider \in {"huggingface", "openai"}
    /\ calls[c].op = "summarizeText"
    /\ calls[c].pc = "request"
    /\ calls[c].log = <<Event("attempt", 1), Event("request", 1)>>

(***************************************************************************)
(* Concurrent calls of summarizeText.                                      *)
(***************************************************************************)

\* the calls of summarizeText suspended at a provider request or a backoff
InFlight ==
  {c \in Callers : calls[c].op = "summarizeText"
                     /\ calls[c].pc \in {"request", "backoff"}}

\* the call settled after its primary provider path had failed
Degraded(call) ==
  \/ call.outcome.kind = "AIServiceError"
  \/ call.outcome.kind = "result" /\ call.outcome.provider # currentProvider

EngineAnswered ==
  {c \in Settled : calls[c].outcome.kind = "result"
                     /\ calls[c].outcome.provider = "fallback"}

\* two calls with identical text and identical options
SameRequest(a, b) ==
  /\ a.input = b.input
  /\ a.maxLength = b.maxLength
  /\ a.style = b.style

\* a call settles with the summary of the engine: the service state changes
\* by the increments of summarizeText alone (requestCount++ when the call
\* starts, errorCount++ in its catch block)
EngineStepFrame ==
  \A c \in Callers :
    (/\ calls[c].pc # "done"
     /\ calls'[c].pc = "done"
     /\ calls'[c].op = "summarizeText"
     /\ calls'[c].outcome.provider = "fallback") =>
      /\ currentProvider' = currentProvider
      /\ config' = config
      /\ requestCount'
           = requestCount + (IF calls[c].pc = "idle" THEN 1 ELSE 0)
      /\ errorCount'
           = errorCount + (IF currentProvider = "fallback" THEN 0 ELSE 1)

HasAt(text, i, prefix) == SubSeq(text, i, i + Len(prefix) - 1) = prefix

\* every line of the text begins with the bullet marker of the running file
EveryLineBulleted(text) ==
  /\ HasAt(text, 1, IF variant = "backend" THEN BulletMarker_backend
                    ELSE BulletMarker)
  /\ \A i \in 1..Len(text) :
       HasAt(text, i, "\n") =>
         HasAt(text, i + 1, IF variant = "backend" THEN BulletMarker_backend
                            ELSE BulletMarker)

\* C13 as stated: a non-empty summary of the engine of note-app-backend
\* has, with style 'bullet', the bullet marker at the head of each of its
\* lines; with style 'detailed', the prefix 'Summary:'; with style
\* 'concise', neither.
C13_StyleShapesTheSummary ==
  \A c \in EngineAnswered :
    (variant = "note-app-backend" /\ calls[c].outcome.summary # "") =>
      /\ calls[c].style = "bullet" =>
           EveryLineBulleted(calls[c].outcome.summary)
      /\ calls[c].style = "detailed" =>
           HasAt(calls[c].outcome.summary, 1, "Summary:")
      /\ calls[c].style = "concise" =>
           /\ ~HasAt(calls[c].outcome.summary, 1, BulletMarker)
           /\ ~HasAt(calls[c].outcome.summary, 1, "Summary:")

(***************************************************************************)
(* Simple truncation.                                                      *)
(***************************************************************************)

\* the calls that settled with the text of simpleTruncate
Truncated ==
  {c \in Settled : calls[c].outcome.kind = "result"
                     /\ calls[c].outcome.provider = "simple"}

\* '...'.length
EllipsisLength == Len("...")

\* C14 as stated: the text simpleTruncate returns is at most maxLength * 4
\* characters long plus the length of the ellipsis, and where the content
\* has no sentence (the character-truncation path) it ends with '...' only
\* if the content was longer than maxLength * 4 characters.
C14_TruncationIsBounded ==
  \A c \in Truncated :
    /\ Len(calls[c].outcome.summary)
         <= calls[c].maxLength * 4 + EllipsisLength
    /\ (/\ longerThan(mapTrim(split(trimmedContent(calls[c]), "terminator")), 0)
          = <<>>
        /\ endsWith(calls[c].outcome.summary, "..."))
         => Len(trimmedContent(calls[c])) > calls[c].maxLength * 4

(***************************************************************************)
(* The controller: quota and cache of summarizeNote.                       *)
(***************************************************************************)

\* the handlers working on a summarizeNote request, or holding its response
Summarizing == {c \in Callers : handlers[c].op = "summarizeNote"}

\* the number of times the core was called for the user in the hour that
\* begins at time t
CoreCallsInWindow(t) ==
  Cardinality({j \in DOMAIN history.coreCalls :
                 /\ history.coreCalls[j] >= t
                 /\ history.coreCalls[j] < t + RATE_LIMIT_WINDOW})

\* C15 as stated: a request of a user with 20 requests recorded in the
\* preceding hour is rejected with RateLimitError before the note is looked
\* up and before the core is called, a request goes on to the lookup only
\* with fewer than 20, and in no one-hour window more than 20 requests of
\* the user reach the core.
C15_QuotaBoundsCoreCalls ==
  /\ \A c \in Summarizing :
       /\ handlers[c].pc = "findOne" =>
            Len(arrays[c]) < MAX_REQUESTS_PER_HOUR
       /\ handlers[c].response.kind = "RateLimitError" =>
            /\ Len(arrays[c]) >= MAX_REQUESTS_PER_HOUR
            /\ calls[c].pc = "idle"
  /\ \A i \in DOMAIN history.coreCalls :
       CoreCallsInWindow(history.coreCalls[i]) <= MAX_REQUESTS_PER_HOUR

\* the note has a summary less than one hour old at time t
Fresh(note, t) ==
  /\ note.summary # ""
  /\ note.summarizedAt # NoDate
  /\ t - note.summarizedAt < RATE_LIMIT_WINDOW

\* handler c takes a step of a summarizeNote request for a note of the user
\* before the core has been called for it
Decides(c) ==
  /\ handlers'[c] # handlers[c]
  /\ handlers[c].pc \in {"idle", "findOne"}
  /\ handlers'[c].op = "summarizeNote"
  /\ handlers'[c].noteId \in DOMAIN notes

\* the step leaves the note, the quota and the core as they were
NothingDone(c) ==
  /\ notes' = notes
  /\ calls' = calls
  /\ requestCount' = requestCount
  /\ userRequestCounts' = userRequestCounts
  /\ arrays' = arrays
  /\ history'.coreCalls = history.coreCalls

\* the response carries the stored summary of the note, cached: true
ServedFromCache(response, note) ==
  /\ response.kind = "success"
  /\ response.cached
  /\ response.summary = note.summary
  /\ response.summarizedAt = note.summarizedAt

\* C16 as stated: a request for a note with a summary less than one hour old
\* is answered with the stored summary and cached: true, without calling
\* the core, changing the note or recording a request; a request for a note
\* with an older summary or none calls the core.
C16_FreshSummaryIsServed ==
  [][\A c \in Callers :
       Decides(c) =>
         IF Fresh(notes[handlers'[c].noteId], clock)
         THEN /\ handlers'[c].pc = "responded" =>
                   ServedFromCache(handlers'[c].response,
                                   notes[handlers'[c].noteId])
              /\ calls' = calls
              /\ notes' = notes
         ELSE handlers[c].pc = "findOne" =>
                /\ handlers'[c].pc = "core"
                /\ calls'[c].op = "summarizeText"]_vars

\* C16: once the rate limiting check has admitted the request and the note
\* has been found, a summary less than one hour old is returned as stored
\* with cached: true, and the core is not called, the note not changed and
\* no request recorded; with a summary one hour old or older, or none, the
\* request is recorded and the core called if the content has at least 100
\* characters, and rejected with a ValidationError, nothing being recorded
\* or called, if it has fewer.
C16_AdmittedFreshSummaryIsServed ==
  [][\A c \in Callers :
       (Decides(c) /\ handlers[c].pc = "findOne") =>
         IF Fresh(notes[handlers[c].noteId], clock)
         THEN /\ handlers'[c].pc = "responded"
              /\ ServedFromCache(handlers'[c].response,
                                 notes[handlers[c].noteId])
              /\ NothingDone(c)
         ELSE IF Len(notes[handlers[c].noteId].content) >= MinNoteLength
         THEN /\ handlers'[c].pc = "core"
              /\ calls'[c].op = "summarizeText"
              /\ arrays'[c] = Append(arrays[c], handlers[c].now)
              /\ userRequestCounts' = c
              /\ notes' = notes
         ELSE /\ handlers'[c].pc = "responded"
              /\ handlers'[c].response.kind = "ValidationError"
              /\ NothingDone(c)]_vars

\* a request was answered from the cache: the note and the 19 recorded
\* requests are as before and the core has not been called
C16_Witness ==
  \E c \in Summarizing :
    /\ handlers[c].pc = "responded"
    /\ handlers[c].noteId = "recent"
    /\ ServedFromCache(handlers[c].response, InitialNotes["recent"])
    /\ notes = InitialNotes
    /\ Len(userRequestsOf) = MAX_REQUESTS_PER_HOUR - 1
    /\ requestCount = 0
    /\ history.requests = 1

(***************************************************************************)
(* healthCheck.                                                            *)
(***************************************************************************)

\* the calls of healthCheck, in progress or settled
Checking == {c \in Callers : calls[c].op = "healthCheck"}

\* the number of provider requests the call has issued
RequestsIssued(call) ==
  Cardinality({i \in DOMAIN call.log : call.log[i].e = "request"})

\* C17: healthCheck issues exactly one test call if the current provider is
\* OpenAI and its key is configured, and none otherwise; it never throws:
\* it settles with status 'unhealthy' and the error message if the test
\* call failed, and with status 'healthy' if it succeeded or was not made.
C17_HealthCheck ==
  \A c \in Checking :
    /\ RequestsIssued(calls[c])
         = (IF currentProvider = "openai" /\ config.openaiApiKey # ""
            THEN 1 ELSE 0)
    /\ calls[c].pc \in {"request", "done"}
    /\ calls[c].pc = "done" =>
         /\ calls[c].outcome.kind = "health"
         /\ calls[c].outcome.provider = currentProvider
         /\ IF \E i \in DOMAIN calls[c].log : calls[c].log[i].e = "failed"
            THEN /\ calls[c].outcome.summary = "unhealthy"
                 /\ calls[c].outcome.message # ""
            ELSE /\ calls[c].outcome.summary = "healthy"
                 /\ calls[c].outcome.message = ""

\* healthCheck reported 'unhealthy' with the message of the test call that
\* timed out
C17_Witness ==
  \E c \in Checking :
    /\ calls[c].pc = "done"
    /\ calls[c].log = <<Event("request", 1), Event("failed", 1)>>
    /\ calls[c].outcome.summary = "unhealthy"
    /\ calls[c].outcome.message = "OpenAI request timeout"

(***************************************************************************)
(* Retries, validation and the fallback path.                              *)
(***************************************************************************)

\* C18 as stated: a text of the primary network provider that is rejected
\* (a failure phrase, or otherwise unusable) counts as a failed attempt: it
\* is followed by the backoff delay and another attempt while the attempt
\* budget lasts, and by the fallback only when the budget is used up.
C18_RejectedResponseIsRetried ==
  \A c \in Callers :
    (calls[c].op = "summarizeText" /\ currentProvider # "fallback") =>
      \A i \in DOMAIN calls[c].log :
        (/\ calls[c].log[i].e = "returned"
         /\ Unusable(calls[c].primaryText, trimmedContent(calls[c]))) =>
          /\ i < Len(calls[c].log)
          /\ IF calls[c].log[i].n < Budget
             THEN calls[c].log[i + 1]
                    = Event("wait", backoffDelay(calls[c].log[i].n))
             ELSE calls[c].log[i + 1].e = "fallback"

\* C19 as stated: with the engine as the current provider, a call that
\* passed the input validation and whose engine returned without throwing
\* settles with the engine's text under provider 'fallback', the catch
\* block is not entered (errorCount stays as it was), and the truncation is
\* not reached.
C19_EngineAsPrimaryIsAccepted ==
  \A c \in Settled :
    (/\ currentProvider = "fallback"
     /\ calls[c].outcome.kind # "ValidationError"
     /\ ~engineOn(variant, trimmedContent(calls[c]), calls[c].maxLength,
                  calls[c].style).threw) =>
      /\ calls[c].outcome.kind = "result"
      /\ calls[c].outcome.provider = "fallback"
      /\ calls[c].outcome.summary = calls[c].primaryText
      /\ calls[c].caught = ""
      /\ \A i \in DOMAIN calls[c].log : calls[c].log[i].e # "simple"

WrapperThrew(call, i) ==
  /\ i \in DOMAIN call.log
  /\ call.log[i].e = "threw"

EngineOnly == <<Event("fallback", 0)>>

EngineThenTruncation == <<Event("fallback", 0), Event("simple", 0)>>

\* C20: once the retry wrapper of a network provider has thrown after its
\* last attempt, the rest of the call is one run of the engine, followed by
\* at most one simple truncation: the last attempt is the budget's, no
\* backoff delay comes between the last failure and the engine or after it,
\* no further attempt or request is made, and the call is settled at once.
C20_FallbackPathRunsOnce ==
  \A c \in Callers :
    (calls[c].op = "summarizeText" /\ currentProvider # "fallback") =>
      \A i \in DOMAIN calls[c].log :
        WrapperThrew(calls[c], i) =>
          /\ calls[c].log[i].n = Budget
          /\ i > 1
          /\ calls[c].log[i - 1] = Event("failed", Budget)
          /\ SubSeq(calls[c].log, i + 1, Len(calls[c].log))
               \in {EngineOnly, EngineThenTruncation}
          /\ calls[c].pc = "done"

\* a call whose network provider failed on every attempt of the budget,
\* with the backoff delays between the attempts, and was then answered by
\* the engine
C20_Witness ==
  \E c \in Callers :
    /\ calls[c].op = "summarizeText"
    /\ currentProvider # "fallback"
    /\ calls[c].pc = "done"
    /\ \E i \in DOMAIN calls[c].log :
         /\ WrapperThrew(calls[c], i)
         /\ calls[c].log[i + 1] = Event("fallback", 0)
    /\ \E j \in DOMAIN calls[c].log : calls[c].log[j].e = "wait"
    /\ calls[c].outcome.kind = "result"
    /\ calls[c].outcome.provider = "fallback"

\* the call sent a request to OpenAI: requests go to
\* this.providers[this.currentProvider] and to no other network provider
OpenAIRequested(call) ==
  /\ currentProvider = "openai"
  /\ \E i \in DOMAIN call.log : call.log[i].e = "request"

BothConfigured == config.huggingFaceApiKey # "" /\ config.openaiApiKey # ""

\* C21 as stated: with both credentials configured, a call that came to the
\* fallback engine after every Hugging Face attempt failed has sent a
\* request to OpenAI before.
C21_OpenAIBeforeFallback ==
  \A c \in Settled :
    (/\ BothConfigured
     /\ currentProvider = "huggingface"
     /\ Exhausted(calls[c])
     /\ \E i \in DOMAIN calls[c].log : calls[c].log[i].e = "fallback") =>
      OpenAIRequested(calls[c])

(***************************************************************************)
(* Properties of the fallback engine of note-app-backend.                  *)
(***************************************************************************)

\* the calls the engine answered after the provider had failed: the
\* summary of the result is the text the engine returned
EngineCalls ==
  {c \in Settled : /\ variant = "note-app-backend"
                   /\ Exhausted(calls[c])
                   /\ calls[c].outcome.provider = "fallback"}

\* the candidate sentences of the note of a call, and their scores
CandidatesOf(call) == extractSentences(trimmedContent(call))

ScoresOf(call) ==
  scoreSentences(CandidatesOf(call),
                 calculateWordFrequencies(trimmedContent(call)))

\* N = clamp(ceil(S * 0.3), 2, 4)
Quota(S) ==
  LET n == (3 * S + 9) \div 10
  IN IF n < 2 THEN 2 ELSE IF n > 4 THEN 4 ELSE n

\* candidate j ranks before candidate i: a higher score, or the same score
\* and an earlier place in the text
RanksBefore(scored, j, i) ==
  \/ Greater(scored[j].score, scored[i].score)
  \/ ~Greater(scored[i].score, scored[j].score) /\ j < i

\* the places of the min(S, N) highest-scoring candidates
SelectedOf(scored) ==
  {i \in DOMAIN scored :
     Cardinality({j \in DOMAIN scored : RanksBefore(scored, j, i)})
       < Quota(Len(scored))}

\* the first place at which the part occurs in the text, 0 if nowhere
PlaceIn(text, part) ==
  LET places == {k \in 1..(Len(text) - Len(part) + 1) :
                   SubSeq(text, k, k + Len(part) - 1) = part}
  IN IF places = {} THEN 0
     ELSE CHOOSE k \in places : \A m \in places : k <= m

\* the sentences of the summary are selected ones, in the order of the note
FromSelection(summary, sentences, selected) ==
  /\ \A i \in DOMAIN sentences \ selected : PlaceIn(summary, sentences[i]) = 0
  /\ \A i, j \in selected :
       (/\ i < j
        /\ PlaceIn(summary, sentences[i]) > 0
        /\ PlaceIn(summary, sentences[j]) > 0) =>
         PlaceIn(summary, sentences[i]) < PlaceIn(summary, sentences[j])

\* C22 as stated: the engine selects min(S, N) candidates, N = clamp(ceil(S *
\* 0.3), 2, 4), by score; no candidate outside the selection appears in the
\* summary, and the selected ones that appear do so in the order of the note.
C22_SummaryIsMadeOfTheSelection ==
  \A c \in EngineCalls :
    CandidatesOf(calls[c]) # <<>> =>
      /\ Cardinality(SelectedOf(ScoresOf(calls[c])))
           = Min2(Len(CandidatesOf(calls[c])), Quota(Len(CandidatesOf(calls[c]))))
      /\ FromSelection(calls[c].outcome.summary, CandidatesOf(calls[c]),
                       SelectedOf(ScoresOf(calls[c])))

\* the summary as assembled, before the style-based formatting
AssembledOf(call) ==
  IF call.style = "detailed"
  THEN SubSeq(call.outcome.summary, Len("Summary: ") + 1,
              Len(call.outcome.summary))
  ELSE call.outcome.summary

\* sentence.split(/\s+/).length
WordsIn(text) == Len(split(text, "space"))

\* the first of the ordered selected sentences
FirstSelected(call) ==
  CandidatesOf(call)[CHOOSE i \in SelectedOf(ScoresOf(call)) :
                       \A j \in SelectedOf(ScoresOf(call)) : i <= j]

\* the calls whose result is the assembled summary, formatted at most by a
\* prefix
AssemblingCalls ==
  {c \in EngineCalls : /\ CandidatesOf(calls[c]) # <<>>
                       /\ calls[c].style \in {"concise", "detailed"}}

\* the first words of the sentence, at most n of them, and an ellipsis
CutTo(sentence, n) ==
  join(slice0(split(sentence, "space"), n), " ") \o "..."

\* C23 as stated, the target being maxLength / 3.5 words: the words of the
\* included sentences never exceed the target; a first sentence that alone
\* exceeds it is cut to max(10, target) words and ends with an ellipsis;
\* the assembled summary is not empty.
C23_WordCountWithinTarget ==
  \A c \in AssemblingCalls :
    /\ AssembledOf(calls[c]) # ""
    /\ IF 7 * WordsIn(FirstSelected(calls[c])) > 2 * calls[c].maxLength
       THEN /\ endsWith(AssembledOf(calls[c]), "...")
            /\ 7 * WordsIn(AssembledOf(calls[c]))
                 <= Max2(70, 2 * calls[c].maxLength)
       ELSE 7 * WordsIn(AssembledOf(calls[c])) <= 2 * calls[c].maxLength

\* C23, the target being ceil(maxLength / 3.5) words: the words of the
\* included sentences never exceed the target, and the first selected
\* sentence is included when it fits; a first sentence that alone exceeds
\* the target is cut to max(10, target) words and ends with an ellipsis;
\* the assembled summary is not empty.
C23_WordCountWithinCeiling ==
  \A c \in AssemblingCalls :
    /\ AssembledOf(calls[c]) # ""
    /\ IF WordsIn(FirstSelected(calls[c])) > CeilDiv(2 * calls[c].maxLength, 7)
       THEN AssembledOf(calls[c])
              = CutTo(FirstSelected(calls[c]),
                      Max2(10, CeilDiv(2 * calls[c].maxLength, 7)))
       ELSE /\ WordsIn(AssembledOf(calls[c]))
                 <= CeilDiv(2 * calls[c].maxLength, 7)
            /\ startsWith(AssembledOf(calls[c]), FirstSelected(calls[c]))

\* a summary of whole sentences with exactly ceil(maxLength / 3.5) words,
\* which is more than maxLength / 3.5
C23_Witness ==
  \E c \in AssemblingCalls :
       /\ WordsIn(AssembledOf(calls[c])) = CeilDiv(2 * calls[c].maxLength, 7)
       /\ 7 * WordsIn(AssembledOf(calls[c])) > 2 * calls[c].maxLength
       /\ ~endsWith(AssembledOf(calls[c]), "...")

\* C24 as stated: when no sentence of the note is a candidate, the engine
\* returns the keyword summary: 'Key topics: ' and the most frequent words,
\* at most 10, separated by ', ', then '. ' and a truncation of the note.
C24_NoCandidatesGiveKeyTopics ==
  \A c \in EngineCalls :
    CandidatesOf(calls[c]) = <<>> =>
      \E n \in 1..10 :
        startsWith(calls[c].outcome.summary,
          "Key topics: "
            \o join(slice0(wordsOfEntries(sortByCount(
                      calculateWordFrequencies(trimmedContent(calls[c])))), n),
                    ", ")
            \o ". ")

(***************************************************************************)
(* Properties of the controller, continued.                                *)
(***************************************************************************)

\* C25 as stated: a request sent with refresh: true that finds its note is
\* answered with a newly generated summary: cached: false, the provider
\* that made it, and the note's summary and summarizedAt replaced, also
\* when the note has a summary less than one hour old.
C25_RefreshRegenerates ==
  \A c \in Callers :
    (/\ handlers[c].pc = "responded"
     /\ handlers[c].refresh
     /\ handlers[c].response.kind = "success") =>
      /\ ~handlers[c].response.cached
      /\ handlers[c].response.provider # ""

\* the step in which handler c takes the result of the core for the note
TakesResult(c, id) ==
  /\ handlers[c].pc = "core"
  /\ handlers[c].noteId = id
  /\ calls[c].pc = "done"
  /\ calls[c].outcome.kind = "result"
  /\ handlers'[c].pc = "responded"

\* C28: a step changes a note only by writing the summary the core returned
\* and the time of the step as summarizedAt, both at once, when a handler
\* takes the result of the core for that note; a step that answers with an
\* error, or from the cache, leaves every note as it was.
C28_NoteWrittenOnlyWithResult ==
  [][/\ \A id \in DOMAIN notes :
          notes'[id] # notes[id] =>
            /\ notes'[id].content = notes[id].content
            /\ notes'[id].summarizedAt = clock
            /\ \E c \in Callers :
                 /\ TakesResult(c, id)
                 /\ notes'[id].summary = calls[c].outcome.summary
                 /\ handlers'[c].response.summary = notes'[id].summary
                 /\ handlers'[c].response.summarizedAt = notes'[id].summarizedAt
     /\ \A c \in Callers :
          (/\ handlers'[c] # handlers[c]
           /\ handlers'[c].pc = "responded"
           /\ \/ handlers'[c].response.kind # "success"
              \/ handlers'[c].response.cached) =>
            notes' = notes]_vars

\* the note "plain" has been given a summary, and a later request for the
\* note "padded", which the core rejected, has left that note as it was
C28_Witness ==
  \E c \in Callers :
    /\ notes["plain"].summary # ""
    /\ notes["plain"].summarizedAt # NoDate
    /\ handlers[c].pc = "responded"
    /\ handlers[c].noteId = "padded"
    /\ handlers[c].response.kind = "ValidationError"
    /\ Len(history.coreCalls) - Len(arrays["stored"]) = 2
    /\ notes["padded"] = InitialNotes["padded"]

\* no handler is at work and no call of the core is in progress
AtRest ==
  /\ \A c \in Callers : handlers[c].pc = "idle"
  /\ \A c \in Callers : calls[c].pc = "idle"

\* C27 as stated: for requests of one user handled concurrently, once the
\* handlers have finished the list of the user holds one timestamp for
\* every call of the core made in the last hour, and the core is never
\* called more than 20 times for the user within one hour.
C27_ConcurrentRequestsAreCounted ==
  /\ AtRest =>
       Len(filterRecent(userRequestsOf, clock))
         = Len(filterRecent(history.coreCalls, clock))
  /\ \A i \in DOMAIN history.coreCalls :
       Cardinality({j \in DOMAIN history.coreCalls :
                      /\ history.coreCalls[j] >= history.coreCalls[i]
                      /\ history.coreCalls[j] - history.coreCalls[i]
                           < RATE_LIMIT_WINDOW})
         <= MAX_REQUESTS_PER_HOUR

\* the requests recorded for the user in the last hour
RecordedInWindow == Len(filterRecent(userRequestsOf, clock))

\* handler c takes up a batch request that passes the validation of noteIds
BatchArrives(c) ==
  /\ handlers[c].pc = "idle"
  /\ handlers'[c].op = "batchSummarize"
  /\ Len(handlers'[c].noteIds) \in 1..MaxBatchSize

\* handler c comes back from the core with a summary that was saved
BatchNoteSummarized(c) ==
  /\ handlers[c].pc = "batchCore"
  /\ handlers'[c].pc = "loop"
  /\ handlers'[c].successful = handlers[c].successful + 1

EventsOf(call, kind) ==
  Cardinality({i \in DOMAIN call.log : call.log[i].e = kind})

\* the requests of the attempt that begins at place i of the log: the
\* "request" events up to the next "attempt" event
RequestsOfAttempt(call, i) ==
  Cardinality({j \in DOMAIN call.log :
                 /\ j > i
                 /\ call.log[j].e = "request"
                 /\ \A k \in (i + 1)..j : call.log[k].e # "attempt"})

\* C29 as stated, for the calls that have settled: the call ended with a
\* result or a rejection of its input; it made at most the budget of
\* attempts, each with at most 2 requests, the models being asked in their
\* fixed order; the engine ran at most once and the truncation at most once.
C29_CallsEndWithinTheirBudget ==
  \A c \in Settled :
    /\ calls[c].outcome.kind \in {"result", "ValidationError"}
    /\ EventsOf(calls[c], "attempt") <= Budget
    /\ \A i \in DOMAIN calls[c].log :
         calls[c].log[i].e = "attempt" =>
           /\ RequestsOfAttempt(calls[c], i) <= 2
           /\ \A j \in 1..RequestsOfAttempt(calls[c], i) :
                calls[c].log[i + j] = Event("request", j)
    /\ EventsOf(calls[c], "fallback") <= 1
    /\ EventsOf(calls[c], "simple") <= 1

\* the call of c entered the catch block of summarizeText
Caught(call) == call.op = "summarizeText" /\ call.caught # ""

\* the step begins a summarizeText call of c that passed validation
Accepts(c) ==
  /\ calls[c].pc = "idle"
  /\ calls'[c].op = "summarizeText"
  /\ calls'[c].outcome.kind # "ValidationError"

\* the step settles the summarizeText call of c
Settles(c) ==
  /\ calls[c].pc # "done"
  /\ calls'[c].pc = "done"
  /\ calls'[c].op = "summarizeText"

\* C30: errorCount stays between 0 and requestCount, and the successRate of
\* getStats between 0 and 100 percent; no step lowers a counter; requestCount
\* rises by 1 only when a call is accepted and errorCount by 1 only when a
\* call settles through its catch block, so that a call whose retry
\* succeeded leaves errorCount as it was; getStats and healthCheck change
\* neither counter.
C30_CountersAreOrdered ==
  /\ [](/\ 0 <= errorCount
        /\ errorCount <= requestCount
        /\ 0 <= successRate
        /\ successRate <= 100 * 100
        /\ \A c \in Callers :
             calls[c].op = "getStats" =>
               calls[c].stats.successRate \in 0..(100 * 100))
  /\ [][/\ requestCount' \in {requestCount, requestCount + 1}
        /\ errorCount' \in {errorCount, errorCount + 1}
        /\ requestCount' # requestCount => \E c \in Callers : Accepts(c)
        /\ errorCount' # errorCount =>
             \E c \in Callers : Settles(c) /\ Caught(calls'[c])
        /\ \A c \in Callers :
             /\ Settles(c) /\ ~Caught(calls'[c]) => errorCount' = errorCount
             /\ calls'[c].op \in {"getStats", "healthCheck"} =>
                  UNCHANGED <<requestCount, errorCount>>]_vars

\* a call settled with the text of its provider after an attempt had failed,
\* and no error was counted
C30_Witness ==
  \E c \in Settled :
    /\ calls[c].outcome.kind = "result"
    /\ calls[c].outcome.provider = currentProvider
    /\ currentProvider # "fallback"
    /\ EventsOf(calls[c], "failed") >= 1
    /\ requestCount = 1
    /\ errorCount = 0
====
